---- MODULE Spec2Model ----
(***************************************************************************)
(* Deal scoring and projection engine of src/app.py (AIRE underwriting).   *)
(*                                                                         *)
(* Python floats are modelled as exact rationals <<n, d>> (d > 0, lowest   *)
(* terms); the absent value None is the empty tuple <<>>, an optional bool *)
(* is <<TRUE>> or <<FALSE>>.  Rounding error of IEEE doubles (about 1e-14  *)
(* on a score) is outside the model.                                       *)
(***************************************************************************)
EXTENDS Integers, Sequences, FiniteSets, TLC

VARIABLES
    pc,          \* position of the scoring run
    p,           \* the Deal Record (PropertyData) the run works on
    full,        \* the fully-populated record p was taken from
    removed,     \* the optional field removed from full to get p ("none" if none)
    included,    \* the included-module set
    rate_env,    \* the rate-environment string, as a sequence of characters
    nums,        \* Numbers bundle returned by compute_numbers
    weights,     \* map returned by get_base_weights
    metrics,     \* Metrics map returned by available_metrics
    base_score,  \* normalized_score(...)[0]
    norm_w,      \* normalized_score(...)[1]
    flags,       \* list returned by ai_flags
    penalty,     \* ai_penalty(flags)
    killed,      \* kill_switch(nums, p, included)
    final_score, \* max(base_score * (1 - penalty), 0)
    g,           \* grade(...)[0]
    verdict,     \* grade(...)[1]
    conf,        \* confidence_from_coverage(metrics, included)
    strengths,   \* narrative(...)[0]
    risks,       \* narrative(...)[1]
    \* sensitivity_matrix
    rent_shocks, \* argument: the rent shocks, a sequence
    rate_shocks, \* argument: the rate shocks, a sequence
    session,     \* st.session_state: the adv_* entries a template has pushed
    np_irr,      \* whether the installed numpy still has irr
    base_nums,   \* argument: the Numbers bundle of the unshocked record
    ri,          \* position of the outer loop in rent_shocks
    ci,          \* position of the inner loop in rate_shocks
    pp,          \* the shocked clone of p of the current cell
    score_row,   \* dict of the current row of scores
    irr_row,     \* dict of the current row of IRRs
    score_rows,  \* list of finished score rows
    irr_rows,    \* list of finished IRR rows
    score_df,    \* returned score grid
    irr_df,      \* returned IRR grid
    calls,       \* number of sensitivity_matrix calls that have returned
    prev_score_df, \* score grid of the previous call
    prev_irr_df, \* IRR grid of the previous call
    todo,        \* cells not yet taken, when workers take the cells in any order
    workers,     \* the locals of each worker's current cell
    results,     \* score and IRR of the cells the workers have finished
    \* project_cashflows
    hold_years, rent_growth, expense_growth, appreciation, sale_cost_pct,
    exit_cap_rate, \* arguments
    cashflows,   \* the series under construction
    yr,          \* year of the operating loop
    noi,         \* running NOI
    debt,        \* annual debt service
    model,       \* returned dict
    \* monthly_payment called on its own
    amort,       \* arguments: principal, annual_rate_pct, term_years
    payment,     \* returned payment
    \* _irr called on its own (on cashflows)
    irr_r,       \* r, what _np.irr returned
    irr_ret,     \* returned rate
    \* credits and the Terminal run
    users,       \* the users row of the signed-in email: credits and paid
    analyses,    \* the rows save_analysis has inserted
    runs,        \* each session's position and locals
    amount,      \* argument of spend_credit
    credits0     \* the credits stored before the first call

pipeVars == <<pc, p, full, removed, included, rate_env, nums, weights, metrics,
              base_score, norm_w, flags, penalty, killed, final_score, g, verdict>>

narrVars == <<conf, strengths, risks>>

sensVars == <<rent_shocks, rate_shocks, session, np_irr, base_nums, ri, ci, pp, score_row,
              irr_row, score_rows, irr_rows, score_df, irr_df, calls, prev_score_df,
              prev_irr_df, todo, workers, results>>

projVars == <<hold_years, rent_growth, expense_growth, appreciation, sale_cost_pct,
              exit_cap_rate, cashflows, yr, noi, debt, model>>

amortVars == <<amort, payment>>

irrVars == <<irr_r, irr_ret>>

creditVars == <<users, analyses, runs, amount, credits0>>

callVars == <<amortVars, irrVars, creditVars>>

vars == <<pipeVars, narrVars, sensVars, projVars, callVars>>

-----------------------------------------------------------------------------
(* Exact rational arithmetic standing for Python float arithmetic.          *)

None == <<>>

Abs(x) == IF x < 0 THEN -x ELSE x

RECURSIVE GCD(_, _)
GCD(a, b) == IF b = 0 THEN a ELSE GCD(b, a % b)

Rat(n, d) ==
    LET s == IF d < 0 THEN -1 ELSE 1
        h == GCD(Abs(n), Abs(d))
    IN  <<(s * n) \div h, (s * d) \div h>>

R(n) == <<n, 1>>

RAdd(x, y) ==
    LET h == GCD(x[2], y[2])
    IN  Rat(x[1] * (y[2] \div h) + y[1] * (x[2] \div h), (x[2] \div h) * y[2])

RNeg(x) == <<-x[1], x[2]>>

RSub(x, y) == RAdd(x, RNeg(y))

RMul(x, y) ==
    LET h1 == GCD(Abs(x[1]), y[2])
        h2 == GCD(Abs(y[1]), x[2])
    IN  Rat((x[1] \div h1) * (y[1] \div h2), (x[2] \div h2) * (y[2] \div h1))

\* x / y for y # 0 (a zero divisor is decided by the caller, as Python raises)
RDiv(x, y) == RMul(x, Rat(y[2], y[1]))

\* x < y: by the integer parts, then by the fractional parts cross-multiplied
RLt(x, y) ==
    LET fx == x[1] \div x[2]
        fy == y[1] \div y[2]
    IN  IF fx # fy THEN fx < fy
        ELSE (x[1] % x[2]) * y[2] < (y[1] % y[2]) * x[2]

RLe(x, y) == ~RLt(y, x)

RMax(x, y) == IF RLt(x, y) THEN y ELSE x

RMin(x, y) == IF RLt(y, x) THEN y ELSE x

\* a ** n for integers a and n >= 0
RECURSIVE IPow(_, _)
IPow(a, n) == IF n = 0 THEN 1 ELSE a * IPow(a, n - 1)

\* x ** n for an integer n >= 0 (x is in lowest terms, and so is the power)
RPow(x, n) == <<IPow(x[1], n), IPow(x[2], n)>>

\* sum of f[k] over the keys in S, as Python's sum() over dict values (the rest
\* of the sum is evaluated first, then the one addition is made)
RECURSIVE RSum(_, _)
RSum(f, S) ==
    IF S = {} THEN R(0)
    ELSE LET k == CHOOSE x \in S : TRUE
         IN  CHOOSE total \in {RAdd(f[k], rest) : rest \in {RSum(f, S \ {k})}} : TRUE

\* Python truthiness of an optional bool
Truthy(b) == b # None /\ b[1]

\* int(x) of a non-negative rational
ToInt(x) == x[1] \div x[2]

-----------------------------------------------------------------------------
(* Deal Record, modules, metric names.                                      *)

Fields ==
    {"price", "replacement_cost", "days_on_market", "monthly_rent",
     "monthly_expenses", "vacancy_rate", "occupancy_pct", "down_payment_pct",
     "interest_rate_pct", "term_years", "job_diversity_index",
     "rent_regulation_risk"}

Modules ==
    {"Rent & Price", "Expenses", "Vacancy", "Financing", "Yield", "Downside",
     "Liquidity", "Location", "Regulation", "Last Sale", "Optionality"}

MetricNames ==
    {"cashflow", "downside", "location", "yield", "liquidity", "optionality",
     "ai_risk"}

NumberNames ==
    {"loan_payment", "noi_year", "cap_rate", "coc_return", "dscr_stress",
     "cash_flow_month"}

-----------------------------------------------------------------------------
(* Metrics Calculator.                                                      *)

\* monthly rate r and number of periods n of monthly_payment
monthly_rate(annual_rate_pct) == RDiv(RDiv(annual_rate_pct, R(100)), R(12))

\* monthly_payment raises ZeroDivisionError: r > 0 and (1 + r) ** n - 1 = 0
monthly_payment_raises(principal, annual_rate_pct, term_years) ==
    LET r == monthly_rate(annual_rate_pct)
        n == term_years * 12
    IN  /\ ~RLe(r, R(0))
        /\ RSub(RPow(RAdd(R(1), r), n), R(1)) = R(0)

\* mutant: the zero-rate branch divides by the years, not the months
monthly_payment_per_year(principal, annual_rate_pct, term_years) ==
    LET r == monthly_rate(annual_rate_pct)
        n == term_years * 12
    IN  IF RLe(r, R(0))
        THEN RDiv(principal, R(IF term_years > 1 THEN term_years ELSE 1))
        ELSE LET q == RPow(RAdd(R(1), r), n)
             IN  RMul(principal, RDiv(RMul(r, q), RSub(q, R(1))))

\* principal * (r * q) / (q - 1), with the exact quotient (r * q) / (q - 1) taken
\* first (the same rational; keeps the intermediate product small)
monthly_payment(principal, annual_rate_pct, term_years) ==
    LET r == monthly_rate(annual_rate_pct)
        n == term_years * 12
    IN  IF RLe(r, R(0))
        THEN RDiv(principal, R(IF n > 1 THEN n ELSE 1))
        ELSE LET q == RPow(RAdd(R(1), r), n)
             IN  RMul(principal, RDiv(RMul(r, q), RSub(q, R(1))))

\* mutant: a default vacancy of 0.05
vacancy_or_default_5pct(q) ==
    IF q.vacancy_rate # None THEN q.vacancy_rate ELSE Rat(5, 100)

\* vac = p.vacancy_rate if p.vacancy_rate is not None else 0.08
vacancy_or_default(q) ==
    IF q.vacancy_rate # None THEN q.vacancy_rate ELSE Rat(8, 100)

has_loan_inputs(q) ==
    /\ q.price # None
    /\ q.down_payment_pct # None
    /\ q.interest_rate_pct # None
    /\ q.term_years # None

loan_amount(q) ==
    RMul(q.price, RSub(R(1), RDiv(q.down_payment_pct, R(100))))

compute_numbers_raises(q) ==
    /\ has_loan_inputs(q)
    /\ monthly_payment_raises(loan_amount(q), q.interest_rate_pct, ToInt(q.term_years))

compute_numbers(q) ==
    LET has_income == q.monthly_rent # None /\ q.monthly_expenses # None
        vac == vacancy_or_default(q)
        eff_rent == RMul(q.monthly_rent, RSub(R(1), vac))
        noi_year == IF has_income
                    THEN RMul(RSub(eff_rent, q.monthly_expenses), R(12))
                    ELSE None
        cap_rate == IF has_income /\ q.price # None /\ RLt(R(0), q.price)
                    THEN RDiv(noi_year, q.price)
                    ELSE None
        has_loan == has_loan_inputs(q)
        pay == IF has_loan
               THEN monthly_payment(loan_amount(q), q.interest_rate_pct, ToInt(q.term_years))
               ELSE None
        cash_flow_month == IF has_loan /\ noi_year # None
                           THEN RSub(RDiv(noi_year, R(12)), pay)
                           ELSE None
        cash_invested == RMul(q.price, RDiv(q.down_payment_pct, R(100)))
        coc_return == IF has_loan /\ noi_year # None /\ RLt(R(0), cash_invested)
                      THEN RDiv(RMul(cash_flow_month, R(12)), cash_invested)
                      ELSE None
        stressed_rent == RMul(RMul(q.monthly_rent, Rat(80, 100)), RSub(R(1), vac))
        dscr_stress == IF has_loan /\ has_income
                       THEN RDiv(RSub(stressed_rent, q.monthly_expenses), RMax(pay, R(1)))
                       ELSE None
    IN  [loan_payment |-> pay, noi_year |-> noi_year, cap_rate |-> cap_rate,
         coc_return |-> coc_return, dscr_stress |-> dscr_stress,
         cash_flow_month |-> cash_flow_month]

-----------------------------------------------------------------------------
(* Composite Scorer: base weights.                                          *)

\* str.upper() on the letters that occur in the rate-environment inputs
upper_char(c) ==
    CASE c = "h" -> "H"
      [] c = "i" -> "I"
      [] c = "g" -> "G"
      [] c = "l" -> "L"
      [] c = "o" -> "O"
      [] c = "w" -> "W"
      [] OTHER   -> c

upper(s) == [i \in 1..Len(s) |-> upper_char(s[i])]

HIGH == <<"H", "I", "G", "H">>

\* mutant: the HIGH map with the NORMAL yield weight left in
HIGH_WEIGHTS_yield15 ==
    [cashflow |-> Rat(32, 100), downside |-> Rat(25, 100), location |-> Rat(12, 100),
     yield |-> Rat(15, 100), liquidity |-> Rat(10, 100), optionality |-> Rat(6, 100),
     ai_risk |-> Rat(5, 100)]

HIGH_WEIGHTS ==
    [cashflow |-> Rat(32, 100), downside |-> Rat(25, 100), location |-> Rat(12, 100),
     yield |-> Rat(10, 100), liquidity |-> Rat(10, 100), optionality |-> Rat(6, 100),
     ai_risk |-> Rat(5, 100)]

NORMAL_WEIGHTS ==
    [cashflow |-> Rat(28, 100), downside |-> Rat(20, 100), location |-> Rat(12, 100),
     yield |-> Rat(15, 100), liquidity |-> Rat(10, 100), optionality |-> Rat(10, 100),
     ai_risk |-> Rat(5, 100)]

\* mutant: the regime compared without upper()
get_base_weights_exact(env) ==
    IF env = HIGH THEN HIGH_WEIGHTS ELSE NORMAL_WEIGHTS

get_base_weights(env) ==
    IF upper(env) = HIGH THEN HIGH_WEIGHTS ELSE NORMAL_WEIGHTS

-----------------------------------------------------------------------------
(* Composite Scorer: available metrics and weight renormalization.          *)

\* max(0.0, min(x, 1.0))
clamp01(x) == RMax(R(0), RMin(x, R(1)))

\* mutant: ai_risk is entered only when some module is included
metric_present_ai_gated(q, n, incl, k) ==
    CASE k = "cashflow"    -> "Financing" \in incl /\ n.dscr_stress # None
      [] k = "downside"    -> /\ "Downside" \in incl
                              /\ q.replacement_cost # None
                              /\ q.price # None
                              /\ RLt(R(0), q.price)
      [] k = "location"    -> "Location" \in incl /\ q.job_diversity_index # None
      [] k = "yield"       -> "Yield" \in incl /\ n.cap_rate # None
      [] k = "liquidity"   -> "Liquidity" \in incl /\ q.days_on_market # None
      [] k = "optionality" -> "Optionality" \in incl
      [] k = "ai_risk"     -> incl # {}

metric_present(q, n, incl, k) ==
    CASE k = "cashflow"    -> "Financing" \in incl /\ n.dscr_stress # None
      [] k = "downside"    -> /\ "Downside" \in incl
                              /\ q.replacement_cost # None
                              /\ q.price # None
                              /\ RLt(R(0), q.price)
      [] k = "location"    -> "Location" \in incl /\ q.job_diversity_index # None
      [] k = "yield"       -> "Yield" \in incl /\ n.cap_rate # None
      [] k = "liquidity"   -> "Liquidity" \in incl /\ q.days_on_market # None
      [] k = "optionality" -> "Optionality" \in incl
      [] k = "ai_risk"     -> TRUE

\* mutant: the downside ratio is not clamped to [0, 1]
metric_value_unclamped(q, n, k) ==
    CASE k = "cashflow"    -> clamp01(RDiv(n.dscr_stress, Rat(150, 100)))
      [] k = "downside"    -> RDiv(RDiv(q.replacement_cost, q.price), Rat(120, 100))
      [] k = "location"    -> clamp01(q.job_diversity_index)
      [] k = "yield"       -> clamp01(RDiv(n.cap_rate, Rat(10, 100)))
      [] k = "liquidity"   -> RMax(R(0), RSub(R(1), RDiv(q.days_on_market, R(180))))
      [] k = "optionality" -> Rat(60, 100)
      [] k = "ai_risk"     -> R(1)

metric_value(q, n, k) ==
    CASE k = "cashflow"    -> clamp01(RDiv(n.dscr_stress, Rat(150, 100)))
      [] k = "downside"    -> clamp01(RDiv(RDiv(q.replacement_cost, q.price), Rat(120, 100)))
      [] k = "location"    -> clamp01(q.job_diversity_index)
      [] k = "yield"       -> clamp01(RDiv(n.cap_rate, Rat(10, 100)))
      [] k = "liquidity"   -> RMax(R(0), RSub(R(1), RDiv(q.days_on_market, R(180))))
      [] k = "optionality" -> Rat(60, 100)
      [] k = "ai_risk"     -> R(1)

available_metrics(q, n, incl) ==
    [k \in {m \in MetricNames : metric_present(q, n, incl, m)} |-> metric_value(q, n, k)]

\* weights.get(k, 0.0)
weight_get(w, k) == IF k \in DOMAIN w THEN w[k] ELSE R(0)

\* mutant: the denominator is the sum of all base weights, present or not
renorm_denom_all(m, w) ==
    LET total == RSum(w, DOMAIN w)
    IN  IF total = R(0) THEN R(1) ELSE total

\* denom = sum(present.values()) or 1.0
renorm_denom(m, w) ==
    LET present == [k \in DOMAIN m |-> weight_get(w, k)]
        total == RSum(present, DOMAIN m)
    IN  IF total = R(0) THEN R(1) ELSE total

normalized_weights(m, w) ==
    [k \in DOMAIN m |-> RDiv(weight_get(w, k), renorm_denom(m, w))]

normalized_score(m, w) ==
    LET nw == normalized_weights(m, w)
        terms == [k \in DOMAIN m |-> RMul(m[k], nw[k])]
    IN  <<RMul(RSum(terms, DOMAIN m), R(100)), nw>>

-----------------------------------------------------------------------------
(* Risk and Flag Evaluator.  A flag text is the sequence of its words, and  *)
(* Python's substring test `pat in f` is a search for a run of words.       *)

FLAG_AGGRESSIVE == <<"Rent-to-price", "looks", "aggressive", "(verify", "comps).">>

FLAG_VACANCY == <<"Vacancy", "assumption", "looks", "optimistic.">>

FLAG_EXPENSES == <<"Expenses", "might", "be", "understated.">>

FLAG_LOW_CAP == <<"Low", "cap", "rate;", "deal", "relies", "on", "appreciation/execution.">>

FLAG_REGULATORY == <<"Regulatory", "pressure", "risk.">>

Contains(f, pat) ==
    \E i \in 1..Len(f) :
        /\ i + Len(pat) - 1 <= Len(f)
        /\ SubSeq(f, i, i + Len(pat) - 1) = pat

\* flags.append(x) if cond
append_if(fs, cond, x) == IF cond THEN Append(fs, x) ELSE fs

\* mutant: the regulatory flag is not gated on the Regulation module
ai_flags_regulation_ungated(q, n, incl) ==
    LET f1 == append_if(<<>>,
                 /\ "Rent & Price" \in incl
                 /\ q.monthly_rent # None
                 /\ q.price # None
                 /\ RLt(R(0), q.price)
                 /\ RLt(Rat(14, 100), RDiv(RMul(q.monthly_rent, R(12)), q.price)),
                 FLAG_AGGRESSIVE)
        f2 == append_if(f1,
                 /\ "Vacancy" \in incl
                 /\ q.vacancy_rate # None
                 /\ RLt(q.vacancy_rate, Rat(5, 100)),
                 FLAG_VACANCY)
        f3 == append_if(f2,
                 /\ "Expenses" \in incl
                 /\ q.monthly_expenses # None
                 /\ q.monthly_rent # None
                 /\ RLt(q.monthly_expenses, RMul(q.monthly_rent, Rat(20, 100))),
                 FLAG_EXPENSES)
        f4 == append_if(f3,
                 /\ "Yield" \in incl
                 /\ n.cap_rate # None
                 /\ RLt(n.cap_rate, Rat(45, 1000)),
                 FLAG_LOW_CAP)
        f5 == append_if(f4, Truthy(q.rent_regulation_risk), FLAG_REGULATORY)
    IN  f5

ai_flags(q, n, incl) ==
    LET f1 == append_if(<<>>,
                 /\ "Rent & Price" \in incl
                 /\ q.monthly_rent # None
                 /\ q.price # None
                 /\ RLt(R(0), q.price)
                 /\ RLt(Rat(14, 100), RDiv(RMul(q.monthly_rent, R(12)), q.price)),
                 FLAG_AGGRESSIVE)
        f2 == append_if(f1,
                 /\ "Vacancy" \in incl
                 /\ q.vacancy_rate # None
                 /\ RLt(q.vacancy_rate, Rat(5, 100)),
                 FLAG_VACANCY)
        f3 == append_if(f2,
                 /\ "Expenses" \in incl
                 /\ q.monthly_expenses # None
                 /\ q.monthly_rent # None
                 /\ RLt(q.monthly_expenses, RMul(q.monthly_rent, Rat(20, 100))),
                 FLAG_EXPENSES)
        f4 == append_if(f3,
                 /\ "Yield" \in incl
                 /\ n.cap_rate # None
                 /\ RLt(n.cap_rate, Rat(45, 1000)),
                 FLAG_LOW_CAP)
        f5 == append_if(f4,
                 "Regulation" \in incl /\ Truthy(q.rent_regulation_risk),
                 FLAG_REGULATORY)
    IN  f5

flag_points(f) ==
    IF Contains(f, <<"aggressive">>) THEN Rat(6, 100)
    ELSE IF Contains(f, <<"Vacancy">>) THEN Rat(8, 100)
    ELSE IF Contains(f, <<"Expenses">>) THEN Rat(6, 100)
    ELSE IF Contains(f, <<"Low", "cap">>) THEN Rat(6, 100)
    ELSE IF Contains(f, <<"Regulatory">>) THEN Rat(20, 100)
    ELSE R(0)

RECURSIVE penalty_sum(_)
penalty_sum(fs) ==
    IF fs = <<>> THEN R(0) ELSE RAdd(flag_points(Head(fs)), penalty_sum(Tail(fs)))

\* mutant: the sum is returned without the cap
ai_penalty_uncapped(fs) == penalty_sum(fs)

ai_penalty(fs) == RMin(penalty_sum(fs), Rat(35, 100))

\* mutant: a stress DSCR of exactly 1.0 fires the kill switch
kill_switch_le(n, q, incl) ==
    \/ "Financing" \in incl /\ n.dscr_stress # None /\ RLe(n.dscr_stress, R(1))
    \/ "Regulation" \in incl /\ Truthy(q.rent_regulation_risk)
    \/ /\ "Liquidity" \in incl
       /\ q.days_on_market # None
       /\ RLt(R(180), q.days_on_market)

kill_switch(n, q, incl) ==
    \/ "Financing" \in incl /\ n.dscr_stress # None /\ RLt(n.dscr_stress, R(1))
    \/ "Regulation" \in incl /\ Truthy(q.rent_regulation_risk)
    \/ /\ "Liquidity" \in incl
       /\ q.days_on_market # None
       /\ RLt(R(180), q.days_on_market)

\* final_score = max(base_score * (1 - penalty), 0)
final_score_of(base, pen) == RMax(RMul(base, RSub(R(1), pen)), R(0))

\* mutant: the score thresholds are tried before the kill switch
grade_score_first(score_val, k) ==
    IF RLe(R(90), score_val) THEN <<"A", "STRONG BUY">>
    ELSE IF RLe(R(80), score_val) THEN <<"B", "BUY">>
    ELSE IF RLe(R(70), score_val) THEN <<"C", "WATCH">>
    ELSE IF RLe(R(60), score_val) /\ ~k THEN <<"D", "SPECULATIVE">>
    ELSE <<"F", "PASS">>

\* mutant: strict comparisons at the thresholds
grade_strict(score_val, k) ==
    IF k THEN <<"F", "PASS">>
    ELSE IF RLt(R(90), score_val) THEN <<"A", "STRONG BUY">>
    ELSE IF RLt(R(80), score_val) THEN <<"B", "BUY">>
    ELSE IF RLt(R(70), score_val) THEN <<"C", "WATCH">>
    ELSE IF RLt(R(60), score_val) THEN <<"D", "SPECULATIVE">>
    ELSE <<"F", "PASS">>

grade(score_val, k) ==
    IF k THEN <<"F", "PASS">>
    ELSE IF RLe(R(90), score_val) THEN <<"A", "STRONG BUY">>
    ELSE IF RLe(R(80), score_val) THEN <<"B", "BUY">>
    ELSE IF RLe(R(70), score_val) THEN <<"C", "WATCH">>
    ELSE IF RLe(R(60), score_val) THEN <<"D", "SPECULATIVE">>
    ELSE <<"F", "PASS">>

-----------------------------------------------------------------------------
(* Confidence and narrative.                                                *)

\* +bonus if the key is in the Metrics map
bonus_if(m, k, b) == IF k \in DOMAIN m THEN b ELSE R(0)

\* base = 0.35 + 0.10 * min(len(included) / 7.0, 1.0)
confidence_base(n_included) ==
    RAdd(Rat(35, 100), RMul(Rat(10, 100), RMin(Rat(n_included, 7), R(1))))

\* mutant: the yield bonus replaces the running value instead of adding to it
confidence_sum_yield_assigned(m, n_included) ==
    LET b1 == RAdd(confidence_base(n_included), bonus_if(m, "cashflow", Rat(18, 100)))
        b2 == IF "yield" \in DOMAIN m THEN Rat(14, 100) ELSE b1
        b3 == RAdd(b2, bonus_if(m, "downside", Rat(10, 100)))
        b4 == RAdd(b3, bonus_if(m, "liquidity", Rat(5, 100)))
    IN  RAdd(b4, bonus_if(m, "location", Rat(5, 100)))

\* base after the five `if key in keys: base += bonus` statements
confidence_sum(m, n_included) ==
    LET b1 == RAdd(confidence_base(n_included), bonus_if(m, "cashflow", Rat(18, 100)))
        b2 == RAdd(b1, bonus_if(m, "yield", Rat(14, 100)))
        b3 == RAdd(b2, bonus_if(m, "downside", Rat(10, 100)))
        b4 == RAdd(b3, bonus_if(m, "liquidity", Rat(5, 100)))
    IN  RAdd(b4, bonus_if(m, "location", Rat(5, 100)))

\* included is a set here: len(included) is its cardinality
confidence_from_coverage(m, incl) ==
    RMax(Rat(35, 100), RMin(confidence_sum(m, Cardinality(incl)), Rat(95, 100)))

STRENGTH_COVERAGE == "Strong stress-tested coverage (DSCR >= 1.25)."

STRENGTH_CAP_RATE == "Healthy cap rate relative to price and expenses."

STRENGTH_DOWNSIDE == "Downside buffer: at/below replacement cost."

STRENGTH_LIQUIDITY == "Liquidity profile looks solid (faster exit)."

STRENGTH_NEUTRAL == "Neutral strength profile; upside depends on better data and execution."

RISK_NONE == <<"No", "major", "risk", "flags", "detected", "with", "the", "selected", "inputs.">>

\* xs[:k]
Take(xs, k) == SubSeq(xs, 1, IF Len(xs) < k THEN Len(xs) ELSE k)

\* strengths, risks of narrative
narrative(q, n, fs, incl) ==
    LET s1 == append_if(<<>>,
                 /\ "Financing" \in incl
                 /\ n.dscr_stress # None
                 /\ RLe(Rat(125, 100), n.dscr_stress),
                 STRENGTH_COVERAGE)
        s2 == append_if(s1,
                 /\ "Yield" \in incl
                 /\ n.cap_rate # None
                 /\ RLe(Rat(7, 100), n.cap_rate),
                 STRENGTH_CAP_RATE)
        s3 == append_if(s2,
                 /\ "Downside" \in incl
                 /\ q.replacement_cost # None
                 /\ q.price # None
                 /\ RLe(q.price, q.replacement_cost),
                 STRENGTH_DOWNSIDE)
        s4 == append_if(s3,
                 /\ "Liquidity" \in incl
                 /\ q.days_on_market # None
                 /\ RLe(q.days_on_market, R(45)),
                 STRENGTH_LIQUIDITY)
        s5 == append_if(s4, s4 = <<>>, STRENGTH_NEUTRAL)
        r1 == append_if(fs, fs = <<>>, RISK_NONE)
    IN  <<Take(s5, 4), Take(r1, 5)>>

-----------------------------------------------------------------------------
(* Cash-Flow Projector: when project_cashflows raises.                      *)

\* project_cashflows raises ZeroDivisionError only at
\* p.price * ((1 + appreciation) ** hold_years), for a zero base and a negative
\* exponent, when the exit-cap branch is not taken; _irr and _npv catch their own
project_cashflows_raises(q, n, hy, rg, eg, appr, sc, exit_cap) ==
    /\ q.price # None
    /\ ~(exit_cap # None /\ RLt(R(0), exit_cap))
    /\ RAdd(R(1), appr) = R(0)
    /\ hy < 0

-----------------------------------------------------------------------------
(* Cash-Flow Projector: project_cashflows, _irr, _npv.                      *)

\* x ** n for any integer n (x # 0 when n < 0)
RPowInt(x, n) == IF n >= 0 THEN RPow(x, n) ELSE RDiv(R(1), RPow(x, -n))

\* `v or 0.0` of an optional number
or_zero(v) == IF v = None THEN R(0) ELSE v

\* mutant: the recomputed seed with a default vacancy of its own, 0.05
noi_seed_own_default(q, n) ==
    IF n.noi_year # None THEN n.noi_year
    ELSE IF q.monthly_rent # None /\ q.monthly_expenses # None
         THEN RMul(RSub(RMul(q.monthly_rent, RSub(R(1), vacancy_or_default_5pct(q))),
                        q.monthly_expenses), R(12))
         ELSE None

\* noi0: nums["noi_year"], else the best-effort NOI from rent and expenses
noi_seed(q, n) ==
    IF n.noi_year # None THEN n.noi_year
    ELSE IF q.monthly_rent # None /\ q.monthly_expenses # None
         THEN RMul(RSub(RMul(q.monthly_rent, RSub(R(1), vacancy_or_default(q))),
                        q.monthly_expenses), R(12))
         ELSE None

\* debt: twelve loan payments, 0.0 without a loan payment
debt_service(n) ==
    IF n.loan_payment # None THEN RMul(n.loan_payment, R(12)) ELSE R(0)

\* down = p.down_payment_pct / 100 if p.down_payment_pct is not None else 1.0
down_fraction(q) ==
    IF q.down_payment_pct # None THEN RDiv(q.down_payment_pct, R(100)) ELSE R(1)

\* equity0 = p.price * down
initial_equity(q) == RMul(q.price, down_fraction(q))

\* one year of growth: noi *= (1 + rg); noi *= (1 - eg) if eg < 1 else 0.0
grow(x, rg, eg) ==
    RMul(RMul(x, RAdd(R(1), rg)), IF RLt(eg, R(1)) THEN RSub(R(1), eg) ELSE R(0))

\* NOI of operating year y >= 1: the seed grown y - 1 times
noi_in_year(seed, rg, eg, y) ==
    RMul(seed, RPow(grow(R(1), rg, eg), y - 1))

\* NOI after the operating loop
noi_at_exit(seed, rg, eg, hy) ==
    IF hy >= 1 THEN noi_in_year(seed, rg, eg, hy) ELSE seed

\* the series after the operating loop: -equity0, then noi - debt of each year
operating_series(q, n, hy, rg, eg) ==
    LET seed == or_zero(noi_seed(q, n))
    IN  <<RNeg(initial_equity(q))>> \o
        [y \in 1..(IF hy >= 1 THEN hy ELSE 0) |->
            RSub(noi_in_year(seed, rg, eg, y), debt_service(n))]

\* exit value: exit cap on the final NOI, else compounded appreciation
exit_value_of(q, final_noi, hy, appr, exit_cap) ==
    IF exit_cap # None /\ RLt(R(0), exit_cap)
    THEN RDiv(final_noi, exit_cap)
    ELSE RMul(q.price, RPowInt(RAdd(R(1), appr), hy))

\* net_sale = exit_value * (1 - sale_cost_pct), less the original loan amount
\* when a down payment is given
net_sale_of(q, exit_val, sc) ==
    LET gross == RMul(exit_val, RSub(R(1), sc))
    IN  IF q.down_payment_pct # None
        THEN RSub(gross, RMul(q.price, RSub(R(1), down_fraction(q))))
        ELSE gross

\* mutant: the sale proceeds are added to the first entry
add_to_first(cfs, x) == [cfs EXCEPT ![1] = RAdd(@, x)]

\* cashflows[-1] += x
add_to_last(cfs, x) == [cfs EXCEPT ![Len(cfs)] = RAdd(@, x)]

\* numpy's irr on a series of three or more flows: a root of the polynomial
\* of the flows (or nan, which _irr turns into None); kept unevaluated
irr_root(cfs) == <<"np.irr", cfs, "root">>

\* float("nan"), what numpy's irr returns when it finds no rate
NAN == <<"nan">>

\* no entry of the series is negative, or none is positive
no_sign_change(cfs) ==
    \/ \A i \in 1..Len(cfs) : ~RLt(cfs[i], R(0))
    \/ \A i \in 1..Len(cfs) : ~RLt(R(0), cfs[i])

\* _np.irr(_np.array(cashflows, dtype=float)), where numpy has irr: numpy
\* takes the roots x of sum(cfs[t] * x^t), keeps the real positive ones and
\* returns 1/x - 1, nan when there is none.  A series whose flows never change
\* sign has no positive root; for two flows a, b of opposite sign the root is
\* -a/b and the rate -b/a - 1.
np_irr_value(cfs) ==
    IF no_sign_change(cfs) THEN NAN
    ELSE IF Len(cfs) = 2 THEN RSub(RNeg(RDiv(cfs[2], cfs[1])), R(1))
    ELSE irr_root(cfs)

\* _np.irr raises: numpy has no irr (AttributeError)
np_irr_raises(cfs, has_irr) == ~has_irr

\* mutant: r is returned without the nan test
irr_result_unchecked(r) == r

\* if r is None or _np.isnan(r): return None; return float(r)
irr_result(r) == IF r = None \/ r = NAN THEN None ELSE r

\* _irr: the result of _np.irr, None where it is nan and where it raises
irr_of(cfs, has_irr) ==
    IF np_irr_raises(cfs, has_irr) THEN None ELSE irr_result(np_irr_value(cfs))

\* _npv: total of cf / (1 + rate) ** t over the series, t from 0
npv_of(rate, cfs) ==
    RSum([i \in 1..Len(cfs) |-> RDiv(cfs[i], RPow(RAdd(R(1), rate), i - 1))], 1..Len(cfs))

\* the discount rate project_cashflows passes to _npv
DISCOUNT_RATE == Rat(10, 100)

\* mutant: an exit value of 0.0 where the price is absent
NO_PRICE_MODEL_zero_exit ==
    [cashflows |-> <<>>, irr |-> None, npv |-> None, exit_value |-> R(0)]

\* the dict returned when the price is absent
NO_PRICE_MODEL == [cashflows |-> <<>>, irr |-> None, npv |-> None, exit_value |-> None]

\* the dict returned from a finished series, exit value and net sale
model_of(cfs, exit_val, net, has_irr) ==
    [cashflows |-> cfs, irr |-> irr_of(cfs, has_irr), npv |-> npv_of(DISCOUNT_RATE, cfs),
     exit_value |-> exit_val, net_sale |-> net]

\* project_cashflows, where it does not raise
project_cashflows(q, n, hy, rg, eg, appr, sc, exit_cap, has_irr) ==
    IF q.price = None THEN NO_PRICE_MODEL
    ELSE LET series == operating_series(q, n, hy, rg, eg)
             final_noi == noi_at_exit(or_zero(noi_seed(q, n)), rg, eg, hy)
             exit_val == exit_value_of(q, final_noi, hy, appr, exit_cap)
             net == net_sale_of(q, exit_val, sc)
         IN  model_of(add_to_last(series, net), exit_val, net, has_irr)

-----------------------------------------------------------------------------
(* Sensitivity Engine: the cell of sensitivity_matrix.                      *)

\* nearest integer to x, ties to the even one
round_half_even(x) ==
    LET fl == x[1] \div x[2]
        twice == 2 * (x[1] % x[2])
    IN  IF twice < x[2] THEN fl
        ELSE IF twice > x[2] THEN fl + 1
        ELSE IF fl % 2 = 0 THEN fl ELSE fl + 1

\* round(x, digits)
round_to(x, digits) ==
    Rat(round_half_even(RMul(x, R(IPow(10, digits)))), IPow(10, digits))

\* f"rate_{irs:+.2%}": the sign and the percentage to two decimals, held as
\* the sign and the number of hundredths of a percent
rate_label(irs) ==
    <<"rate", IF RLt(irs, R(0)) THEN "-" ELSE "+",
      round_half_even(RMul(IF RLt(irs, R(0)) THEN RNeg(irs) ELSE irs, R(10000)))>>

\* a row dict: the rent_shock entry and the label entries in insertion order
new_row(rs) == [rent_shock |-> rs, cells |-> <<>>]

\* row[label] = v: an existing key keeps its place and takes the new value
row_set(row, label, v) ==
    IF \E i \in 1..Len(row.cells) : row.cells[i][1] = label
    THEN [row EXCEPT !.cells = [i \in 1..Len(row.cells) |->
                                   IF row.cells[i][1] = label THEN <<label, v>>
                                   ELSE row.cells[i]]]
    ELSE [row EXCEPT !.cells = Append(row.cells, <<label, v>>)]

\* row[label]
row_get(row, label) ==
    LET i == CHOOSE k \in 1..Len(row.cells) : row.cells[k][1] = label
    IN  row.cells[i][2]

\* the record with the shocks applied
shocked(q, rs, irs) ==
    [q EXCEPT
       !.monthly_rent = IF @ # None THEN RMul(@, RAdd(R(1), rs)) ELSE @,
       !.interest_rate_pct = IF @ # None THEN RMax(R(0), RAdd(@, RMul(irs, R(100)))) ELSE @]

\* mutant: the rent shock is written to the caller's record as well
clone_rent_shared(q, rs, irs) ==
    [original |-> [q EXCEPT !.monthly_rent = shocked(q, rs, irs).monthly_rent],
     clone |-> shocked(q, rs, irs)]

\* mutant: pp is p itself, so the shocks land on the caller's record
alias_and_shock(q, rs, irs) == [original |-> shocked(q, rs, irs), clone |-> shocked(q, rs, irs)]

\* pp = PropertyData(**asdict(p)) and the two assignments to pp: the caller's
\* record and the shocked clone after them
clone_and_shock(q, rs, irs) == [original |-> q, clone |-> shocked(q, rs, irs)]

\* default of st.session_state.get("adv_hold_years", 5)
DEFAULT_HOLD_YEARS == 5

\* st.session_state.get(key, default)
session_get(ss, key, default) == IF key \in DOMAIN ss THEN ss[key] ELSE default

\* hold_years, rg, eg, appr, sc, exit_cap as the cell reads them
assumptions(ss) ==
    [hold_years |-> session_get(ss, "adv_hold_years", DEFAULT_HOLD_YEARS),
     rent_growth |-> session_get(ss, "adv_rent_growth", Rat(3, 100)),
     expense_growth |-> session_get(ss, "adv_expense_growth", Rat(3, 100)),
     appreciation |-> session_get(ss, "adv_appreciation", Rat(3, 100)),
     sale_cost_pct |-> session_get(ss, "adv_sale_cost_pct", Rat(7, 100)),
     exit_cap_rate |-> IF session_get(ss, "adv_use_exit_cap", FALSE)
                       THEN session_get(ss, "adv_exit_cap_rate", Rat(65, 1000))
                       ELSE None]

\* round(irr * 100, 2) if irr is not None else None; an unevaluated root
\* stays unevaluated
irr_percent(irr) ==
    IF irr = None THEN None
    ELSE IF Len(irr) = 2 THEN round_to(RMul(irr, R(100)), 2)
    ELSE <<"round", irr, 2>>

\* the column labels of a list of row dicts: the keys in order of first
\* appearance (every row holds the same keys)
frame_columns(rows) == [i \in 1..Len(rows[1].cells) |-> rows[1].cells[i][1]]

\* pd.DataFrame(rows).set_index("rent_shock") for a non-empty list of rows
DataFrame(rows) ==
    [index |-> [i \in 1..Len(rows) |-> rows[i].rent_shock],
     columns |-> frame_columns(rows),
     values |-> [i \in 1..Len(rows) |->
                   [c \in 1..Len(frame_columns(rows)) |->
                       row_get(rows[i], frame_columns(rows)[c])]]]

-----------------------------------------------------------------------------
(* Inputs of the scoring run.                                               *)

\* largest days_on_market the runs are given
MaxDays == 181

\* a fully-populated Deal Record: levered purchase, one-year note
BaseRecord ==
    [price |-> R(8190), replacement_cost |-> R(9828), days_on_market |-> R(30),
     monthly_rent |-> R(10000), monthly_expenses |-> R(2000),
     vacancy_rate |-> Rat(1, 10), occupancy_pct |-> R(90),
     down_payment_pct |-> R(50), interest_rate_pct |-> R(1200), term_years |-> R(1),
     job_diversity_index |-> Rat(1, 2), rent_regulation_risk |-> <<FALSE>>]

\* other values a populated field is given, one field at a time
Alternatives ==
    [price |-> {R(-8190), R(0), R(2457000)},
     replacement_cost |-> {R(4095), R(16380)},
     days_on_market |-> {R(0), R(180), R(MaxDays)},
     monthly_rent |-> {R(0), R(20000)},
     monthly_expenses |-> {R(0), R(1999), R(3104), R(3105)},
     vacancy_rate |-> {R(0), Rat(1, 25), Rat(2, 25), R(1)},
     occupancy_pct |-> {R(0)},
     down_payment_pct |-> {R(0), R(100)},
     interest_rate_pct |-> {R(0)},
     term_years |-> {R(0)},
     job_diversity_index |-> {R(0), R(1)},
     rent_regulation_risk |-> {<<TRUE>>}]

FullRecords ==
    {BaseRecord} \cup
    UNION {{[BaseRecord EXCEPT ![f] = v] : v \in Alternatives[f]} : f \in Fields}

\* the record without field f ("none": nothing removed)
Remove(q, f) == IF f = "none" THEN q ELSE [q EXCEPT ![f] = None]

AtMostOneModule == {{}} \cup {{m} : m \in Modules}

IncludedSets == AtMostOneModule \cup {Modules \ S : S \in AtMostOneModule}

NORMAL == <<"N", "O", "R", "M", "A", "L">>

EmptyNumbers ==
    [loan_payment |-> None, noi_year |-> None, cap_rate |-> None,
     coc_return |-> None, dscr_stress |-> None, cash_flow_month |-> None]

-----------------------------------------------------------------------------
(* The scoring run: the call sequence of the Terminal run and of a          *)
(* sensitivity cell.                                                        *)

\* before confidence_from_coverage and narrative have been called
NoNarrative ==
    /\ conf = None
    /\ strengths = <<>>
    /\ risks = <<>>

\* no sensitivity_matrix call under way
NoSensitivity ==
    /\ rent_shocks = <<>>
    /\ rate_shocks = <<>>
    /\ session = <<>>
    /\ np_irr = FALSE
    /\ base_nums = None
    /\ ri = 0
    /\ ci = 0
    /\ pp = None
    /\ score_row = None
    /\ irr_row = None
    /\ score_rows = <<>>
    /\ irr_rows = <<>>
    /\ score_df = None
    /\ irr_df = None
    /\ calls = 0
    /\ prev_score_df = None
    /\ prev_irr_df = None
    /\ todo = {}
    /\ workers = <<>>
    /\ results = <<>>

\* no project_cashflows call under way
NoProjection ==
    /\ hold_years = 0
    /\ rent_growth = None
    /\ expense_growth = None
    /\ appreciation = None
    /\ sale_cost_pct = None
    /\ exit_cap_rate = None
    /\ cashflows = <<>>
    /\ yr = 0
    /\ noi = None
    /\ debt = None
    /\ model = None

\* no monthly_payment call of its own under way
NoAmortization ==
    /\ amort = None
    /\ payment = None

\* no _irr call of its own under way
NoIrr ==
    /\ irr_r = None
    /\ irr_ret = None

\* no session signed in
NoCredits ==
    /\ users = None
    /\ analyses = <<>>
    /\ runs = <<>>
    /\ amount = 0
    /\ credits0 = 0

\* none of the functions called on their own is under way
NoCalls == NoAmortization /\ NoIrr /\ NoCredits

NoResults ==
    /\ nums = EmptyNumbers
    /\ weights = <<>>
    /\ metrics = <<>>
    /\ base_score = None
    /\ norm_w = <<>>
    /\ flags = <<>>
    /\ penalty = None
    /\ killed = FALSE
    /\ final_score = None
    /\ g = ""
    /\ verdict = ""

Init ==
    /\ pc = "start"
    /\ full \in FullRecords
    /\ removed \in Fields \cup {"none"}
    /\ p = Remove(full, removed)
    /\ included \in IncludedSets
    /\ rate_env \in {HIGH, NORMAL}
    /\ NoResults
    /\ NoNarrative
    /\ NoCalls
    /\ NoSensitivity
    /\ NoProjection

\* nums = compute_numbers(p)
StepNumbers ==
    /\ pc = "start"
    /\ UNCHANGED callVars
    /\ ~compute_numbers_raises(p)
    /\ nums' = compute_numbers(p)
    /\ pc' = "numbers"
    /\ UNCHANGED <<p, full, removed, included, rate_env, weights, metrics, base_score,
                   norm_w, flags, penalty, killed, final_score, g, verdict>>
    /\ UNCHANGED <<narrVars, sensVars, projVars>>

\* compute_numbers(p) raises ZeroDivisionError: the run ends without a result
StepNumbersRaises ==
    /\ pc = "start"
    /\ UNCHANGED callVars
    /\ compute_numbers_raises(p)
    /\ pc' = "raised"
    /\ UNCHANGED <<p, full, removed, included, rate_env, nums, weights, metrics,
                   base_score, norm_w, flags, penalty, killed, final_score, g, verdict>>
    /\ UNCHANGED <<narrVars, sensVars, projVars>>

\* weights, metrics, base_score, norm_w
StepScore ==
    /\ pc = "numbers"
    /\ UNCHANGED callVars
    /\ weights' = get_base_weights(rate_env)
    /\ metrics' = available_metrics(p, nums, included)
    /\ base_score' = normalized_score(metrics', weights')[1]
    /\ norm_w' = normalized_score(metrics', weights')[2]
    /\ pc' = "scored"
    /\ UNCHANGED <<p, full, removed, included, rate_env, nums, flags, penalty, killed,
                   final_score, g, verdict>>
    /\ UNCHANGED <<narrVars, sensVars, projVars>>

\* flags, penalty, killed, final_score
StepRisk ==
    /\ pc = "scored"
    /\ UNCHANGED callVars
    /\ flags' = ai_flags(p, nums, included)
    /\ penalty' = ai_penalty(flags')
    /\ killed' = kill_switch(nums, p, included)
    /\ final_score' = final_score_of(base_score, penalty')
    /\ pc' = "risk"
    /\ UNCHANGED <<p, full, removed, included, rate_env, nums, weights, metrics,
                   base_score, norm_w, g, verdict>>
    /\ UNCHANGED <<narrVars, sensVars, projVars>>

\* conf = confidence_from_coverage(metrics, included);
\* g, verdict = grade(final_score, killed)
StepGrade ==
    /\ pc = "risk"
    /\ UNCHANGED callVars
    /\ g' = grade(final_score, killed)[1]
    /\ verdict' = grade(final_score, killed)[2]
    /\ pc' = "done"
    /\ UNCHANGED <<p, full, removed, included, rate_env, nums, weights, metrics,
                   base_score, norm_w, flags, penalty, killed, final_score>>
    /\ conf' = confidence_from_coverage(metrics, included)
    /\ UNCHANGED <<strengths, risks, sensVars, projVars>>

\* strengths, risks = narrative(p, nums, flags, included)
StepNarrative ==
    /\ pc = "done"
    /\ UNCHANGED callVars
    /\ strengths' = narrative(p, nums, flags, included)[1]
    /\ risks' = narrative(p, nums, flags, included)[2]
    /\ pc' = "narrated"
    /\ UNCHANGED <<p, full, removed, included, rate_env, nums, weights, metrics,
                   base_score, norm_w, flags, penalty, killed, final_score, g, verdict,
                   conf, sensVars, projVars>>

Next ==
    StepNumbers \/ StepNumbersRaises \/ StepScore \/ StepRisk \/ StepGrade \/ StepNarrative

Spec == Init /\ [][Next]_vars

-----------------------------------------------------------------------------
(* The scorer's pure functions on drawn inputs: get_base_weights on a       *)
(* rate-environment string, normalized_score on a Metrics map.              *)

RateEnvInputs ==
    {HIGH, NORMAL, <<"h", "i", "g", "h">>, <<"H", "i", "g", "h">>,
     <<"L", "O", "W">>, <<>>}

\* metric values the drawn Metrics maps hold
MetricProbes == {R(0), R(1)}

MetricsMaps == UNION {[K -> MetricProbes] : K \in SUBSET MetricNames}

InitScorer ==
    /\ pc = "call"
    /\ rate_env \in RateEnvInputs
    /\ metrics \in MetricsMaps
    /\ full = BaseRecord
    /\ removed = "none"
    /\ p = BaseRecord
    /\ included = {}
    /\ nums = EmptyNumbers
    /\ weights = <<>>
    /\ base_score = None
    /\ norm_w = <<>>
    /\ flags = <<>>
    /\ penalty = None
    /\ killed = FALSE
    /\ final_score = None
    /\ g = ""
    /\ verdict = ""
    /\ NoNarrative
    /\ NoCalls
    /\ NoSensitivity
    /\ NoProjection

\* weights = get_base_weights(rate_env)
CallGetBaseWeights ==
    /\ pc = "call"
    /\ UNCHANGED callVars
    /\ weights' = get_base_weights(rate_env)
    /\ pc' = "weights"
    /\ UNCHANGED <<p, full, removed, included, rate_env, nums, metrics, base_score,
                   norm_w, flags, penalty, killed, final_score, g, verdict>>
    /\ UNCHANGED <<narrVars, sensVars, projVars>>

\* base_score, norm_w = normalized_score(metrics, weights)
CallNormalizedScore ==
    /\ pc = "weights"
    /\ UNCHANGED callVars
    /\ base_score' = normalized_score(metrics, weights)[1]
    /\ norm_w' = normalized_score(metrics, weights)[2]
    /\ pc' = "normalized"
    /\ UNCHANGED <<p, full, removed, included, rate_env, nums, weights, metrics,
                   flags, penalty, killed, final_score, g, verdict>>
    /\ UNCHANGED <<narrVars, sensVars, projVars>>

NextScorer == CallGetBaseWeights \/ CallNormalizedScore

SpecScorer == InitScorer /\ [][NextScorer]_vars

-----------------------------------------------------------------------------
(* grade on drawn scores and kill-switch results.                           *)

\* largest score grade is given
MaxScoreProbe == 100

\* scores in steps of one half
ScoreProbes == {Rat(n, 2) : n \in 0..(2 * MaxScoreProbe)}

InitGrade ==
    /\ pc = "risk"
    /\ final_score \in ScoreProbes
    /\ killed \in BOOLEAN
    /\ full = BaseRecord
    /\ removed = "none"
    /\ p = BaseRecord
    /\ included = {}
    /\ rate_env = HIGH
    /\ nums = EmptyNumbers
    /\ weights = <<>>
    /\ metrics = <<>>
    /\ base_score = None
    /\ norm_w = <<>>
    /\ flags = <<>>
    /\ penalty = None
    /\ g = ""
    /\ verdict = ""
    /\ NoNarrative
    /\ NoCalls
    /\ NoSensitivity
    /\ NoProjection

NextGrade == StepGrade

SpecGrade == InitGrade /\ [][NextGrade]_vars

-----------------------------------------------------------------------------
(* The risk evaluation on records that vary the flag-driving fields         *)
(* together: price, vacancy, expenses and the regulation indicator.         *)

FlagModules == {"Rent & Price", "Vacancy", "Expenses", "Yield", "Regulation"}

FlagRecords ==
    {[BaseRecord EXCEPT !.price = pr, !.vacancy_rate = vac, !.monthly_expenses = ex,
                        !.rent_regulation_risk = reg] :
        pr \in {R(8190), R(614250), R(2457000)},
        vac \in {Rat(1, 25), Rat(1, 10), Rat(3, 5)},
        ex \in {R(1999), R(2000), R(7000)},
        reg \in {<<FALSE>>, <<TRUE>>}}

InitFlags ==
    /\ pc = "start"
    /\ full \in FlagRecords
    /\ removed = "none"
    /\ p = full
    /\ included \in SUBSET FlagModules
    /\ rate_env = NORMAL
    /\ NoResults
    /\ NoNarrative
    /\ NoCalls
    /\ NoSensitivity
    /\ NoProjection

NextFlags == StepNumbers \/ StepScore \/ StepRisk

SpecFlags == InitFlags /\ [][NextFlags]_vars

-----------------------------------------------------------------------------
(* confidence_from_coverage on drawn Metrics maps and included lists.       *)

\* the modules in the order the Terminal lists them
ModuleOrder ==
    <<"Rent & Price", "Expenses", "Vacancy", "Financing", "Yield", "Downside",
      "Liquidity", "Location", "Regulation", "Last Sale", "Optionality">>

\* the first n modules
IncludedPrefix(n) == {ModuleOrder[i] : i \in 1..n}

InitConfidence ==
    /\ pc = "call_conf"
    /\ metrics \in UNION {[K -> {R(1)}] : K \in SUBSET MetricNames}
    /\ included \in {IncludedPrefix(n) : n \in 0..Len(ModuleOrder)}
    /\ full = BaseRecord
    /\ removed = "none"
    /\ p = BaseRecord
    /\ rate_env = NORMAL
    /\ nums = EmptyNumbers
    /\ weights = <<>>
    /\ base_score = None
    /\ norm_w = <<>>
    /\ flags = <<>>
    /\ penalty = None
    /\ killed = FALSE
    /\ final_score = None
    /\ g = ""
    /\ verdict = ""
    /\ NoNarrative
    /\ NoCalls
    /\ NoSensitivity
    /\ NoProjection

\* conf = confidence_from_coverage(metrics, included)
CallConfidence ==
    /\ pc = "call_conf"
    /\ UNCHANGED callVars
    /\ conf' = confidence_from_coverage(metrics, included)
    /\ pc' = "confidence"
    /\ UNCHANGED <<p, full, removed, included, rate_env, nums, weights, metrics,
                   base_score, norm_w, flags, penalty, killed, final_score, g, verdict,
                   strengths, risks, sensVars, projVars>>

NextConfidence == CallConfidence

SpecConfidence == InitConfidence /\ [][NextConfidence]_vars

-----------------------------------------------------------------------------
(* project_cashflows step by step: seed, operating years, exit.             *)

\* longest hold the projections are given
MaxHold == 3

\* a small levered deal: loan 60 at 0% over one year, NOI 168 a year
ProjBaseRecord ==
    [price |-> R(120), replacement_cost |-> None, days_on_market |-> None,
     monthly_rent |-> R(20), monthly_expenses |-> R(4), vacancy_rate |-> Rat(1, 10),
     occupancy_pct |-> None, down_payment_pct |-> R(50), interest_rate_pct |-> R(0),
     term_years |-> R(1), job_diversity_index |-> None, rent_regulation_risk |-> None]

ProjRecords ==
    {ProjBaseRecord, [ProjBaseRecord EXCEPT !.vacancy_rate = Rat(8, 100)]} \cup
    {Remove(ProjBaseRecord, f) :
        f \in {"price", "down_payment_pct", "monthly_rent", "vacancy_rate"}}

InitProjector ==
    /\ pc = "proj_start"
    /\ p \in ProjRecords
    /\ nums \in {compute_numbers(p), EmptyNumbers}
    /\ hold_years \in -1..MaxHold
    /\ rent_growth \in {R(0), Rat(1, 2)}
    /\ expense_growth \in {R(0), Rat(1, 2), R(1)}
    /\ appreciation \in {R(-1), R(0), R(1)}
    /\ sale_cost_pct = Rat(1, 10)
    /\ exit_cap_rate \in {None, R(0), Rat(1, 10)}
    /\ np_irr \in BOOLEAN
    /\ full = p
    /\ removed = "none"
    /\ included = {}
    /\ rate_env = NORMAL
    /\ weights = <<>>
    /\ metrics = <<>>
    /\ base_score = None
    /\ norm_w = <<>>
    /\ flags = <<>>
    /\ penalty = None
    /\ killed = FALSE
    /\ final_score = None
    /\ g = ""
    /\ verdict = ""
    /\ NoNarrative
    /\ NoCalls
    /\ rent_shocks = <<>>
    /\ rate_shocks = <<>>
    /\ session = <<>>
    /\ ri = 0
    /\ ci = 0
    /\ pp = None
    /\ score_row = None
    /\ irr_row = None
    /\ score_rows = <<>>
    /\ irr_rows = <<>>
    /\ score_df = None
    /\ irr_df = None
    /\ calls = 0
    /\ prev_score_df = None
    /\ prev_irr_df = None
    /\ todo = {}
    /\ base_nums = None
    /\ workers = <<>>
    /\ results = <<>>
    /\ cashflows = <<>>
    /\ yr = 0
    /\ noi = None
    /\ debt = None
    /\ model = None

projArgs == <<hold_years, rent_growth, expense_growth, appreciation, sale_cost_pct,
              exit_cap_rate>>

\* if p.price is None: return the empty result
ProjNoPrice ==
    /\ pc = "proj_start"
    /\ UNCHANGED callVars
    /\ p.price = None
    /\ model' = NO_PRICE_MODEL
    /\ pc' = "proj_done"
    /\ UNCHANGED <<p, full, removed, included, rate_env, nums, weights, metrics,
                   base_score, norm_w, flags, penalty, killed, final_score, g, verdict,
                   narrVars, sensVars, projArgs, cashflows, yr, noi, debt>>

\* noi0, debt0, equity0; cashflows = [-equity0]
ProjSeed ==
    /\ pc = "proj_start"
    /\ UNCHANGED callVars
    /\ p.price # None
    /\ cashflows' = <<RNeg(initial_equity(p))>>
    /\ noi' = or_zero(noi_seed(p, nums))
    /\ debt' = debt_service(nums)
    /\ yr' = 1
    /\ pc' = "proj_loop"
    /\ UNCHANGED <<p, full, removed, included, rate_env, nums, weights, metrics,
                   base_score, norm_w, flags, penalty, killed, final_score, g, verdict,
                   narrVars, sensVars, projArgs, model>>

\* one pass of `for yr in range(1, hold_years + 1)`
ProjYear ==
    /\ pc = "proj_loop"
    /\ UNCHANGED callVars
    /\ yr <= hold_years
    /\ noi' = IF yr > 1 THEN grow(noi, rent_growth, expense_growth) ELSE noi
    /\ cashflows' = Append(cashflows, RSub(noi', debt))
    /\ yr' = yr + 1
    /\ UNCHANGED <<pc, p, full, removed, included, rate_env, nums, weights, metrics,
                   base_score, norm_w, flags, penalty, killed, final_score, g, verdict,
                   narrVars, sensVars, projArgs, debt, model>>

\* exit value, net sale, cashflows[-1] += net_sale, irr, npv, return
ProjExit ==
    /\ pc = "proj_loop"
    /\ UNCHANGED callVars
    /\ yr > hold_years
    /\ ~project_cashflows_raises(p, nums, hold_years, rent_growth, expense_growth,
                                 appreciation, sale_cost_pct, exit_cap_rate)
    /\ LET exit_val == exit_value_of(p, noi, hold_years, appreciation, exit_cap_rate)
           net == net_sale_of(p, exit_val, sale_cost_pct)
       IN  /\ cashflows' = add_to_last(cashflows, net)
           /\ model' = model_of(cashflows', exit_val, net, np_irr)
    /\ pc' = "proj_done"
    /\ UNCHANGED <<p, full, removed, included, rate_env, nums, weights, metrics,
                   base_score, norm_w, flags, penalty, killed, final_score, g, verdict,
                   narrVars, sensVars, projArgs, yr, noi, debt>>

\* (1 + appreciation) ** hold_years raises ZeroDivisionError
ProjExitRaises ==
    /\ pc = "proj_loop"
    /\ UNCHANGED callVars
    /\ yr > hold_years
    /\ project_cashflows_raises(p, nums, hold_years, rent_growth, expense_growth,
                                appreciation, sale_cost_pct, exit_cap_rate)
    /\ pc' = "raised"
    /\ UNCHANGED <<p, full, removed, included, rate_env, nums, weights, metrics,
                   base_score, norm_w, flags, penalty, killed, final_score, g, verdict,
                   narrVars, sensVars, projVars>>

NextProjector == ProjNoPrice \/ ProjSeed \/ ProjYear \/ ProjExit \/ ProjExitRaises

SpecProjector == InitProjector /\ [][NextProjector]_vars

\* the steps return what project_cashflows gives in one evaluation
ProjectorStepsAgree ==
    pc = "proj_done" =>
        model = project_cashflows(p, nums, hold_years, rent_growth, expense_growth,
                                  appreciation, sale_cost_pct, exit_cap_rate, np_irr)

-----------------------------------------------------------------------------
(* sensitivity_matrix: the row-major double loop, called up to MaxSensCalls *)
(* times with the same arguments while templates change the session state.  *)

\* sensitivity_matrix calls made with the same arguments
MaxSensCalls == 2

\* session state after a template has been applied: a one-year hold sold on
\* appreciation, and a one-year hold sold on an exit cap
TemplateSessions ==
    {[adv_hold_years |-> 1, adv_rent_growth |-> R(0), adv_expense_growth |-> R(0),
      adv_appreciation |-> Rat(8, 100), adv_sale_cost_pct |-> Rat(8, 100),
      adv_use_exit_cap |-> FALSE, adv_exit_cap_rate |-> R(0)],
     [adv_hold_years |-> 1, adv_rent_growth |-> R(0), adv_expense_growth |-> R(0),
      adv_appreciation |-> R(0), adv_sale_cost_pct |-> Rat(10, 100),
      adv_use_exit_cap |-> TRUE, adv_exit_cap_rate |-> Rat(10, 100)]}

\* no template applied yet: every adv_* key is missing
EMPTY_SESSION == <<>>

\* the defaults (a five-year hold at 3% growth) are exercised where the
\* projection stops at the missing price
SessionsFor(q) ==
    IF q.price = None THEN TemplateSessions \cup {EMPTY_SESSION} ELSE TemplateSessions

\* baselines: the levered base record; a 0% note of term 0; no price; all cash
SensRecords ==
    {BaseRecord,
     [BaseRecord EXCEPT !.interest_rate_pct = R(0), !.term_years = R(0)],
     Remove(BaseRecord, "price"),
     Remove(BaseRecord, "down_payment_pct")}

RentShockSeqs == {<<>>, <<R(0)>>, <<Rat(-1, 10), R(0)>>, <<R(0), Rat(1, 10)>>}

\* rate shocks in decimal: 12 is +1200 points, which takes the base rate to 0
\* on the way down.  The upward shock goes to the baselines whose payment it
\* leaves alone or undefined (no loan inputs; term 0), and shocks a few
\* millionths apart to those without loan inputs.
RateShockSeqs(q) ==
    {<<>>, <<R(0)>>, <<R(-12), R(0)>>} \cup
    (IF has_loan_inputs(q) /\ q.term_years # R(0) THEN {} ELSE {<<R(0), R(12)>>}) \cup
    (IF has_loan_inputs(q) THEN {}
     ELSE {<<R(0), Rat(1, 25000)>>, <<Rat(251, 25000), Rat(1, 100)>>})

InitSens ==
    /\ pc = "sens_row"
    /\ p \in SensRecords
    /\ full = p
    /\ removed = "none"
    /\ base_nums = compute_numbers(p)
    /\ included \in {Modules, {}}
    /\ rate_env \in {NORMAL, HIGH}
    /\ rent_shocks \in RentShockSeqs
    /\ rate_shocks \in RateShockSeqs(p)
    /\ session \in SessionsFor(p)
    /\ np_irr \in BOOLEAN
    /\ ri = 1
    /\ ci = 0
    /\ pp = None
    /\ score_row = None
    /\ irr_row = None
    /\ score_rows = <<>>
    /\ irr_rows = <<>>
    /\ score_df = None
    /\ irr_df = None
    /\ calls = 0
    /\ prev_score_df = None
    /\ prev_irr_df = None
    /\ todo = {}
    /\ workers = <<>>
    /\ results = <<>>
    /\ NoResults
    /\ NoNarrative
    /\ NoCalls
    /\ NoProjection

\* the arguments of sensitivity_matrix other than p, and what it has no name for
parFrame == <<full, removed, included, rate_env, base_nums, rent_shocks, rate_shocks,
              np_irr, g, verdict, narrVars, cashflows, yr, noi, debt>>

\* the same, and what only the workers of an any-order evaluation use
sensFrame == <<parFrame, todo, workers, results>>

\* the locals a cell assigns on its way to the score
scoreLocals == <<nums, weights, metrics, base_score, norm_w, flags, penalty, killed,
                 final_score>>

\* the locals a cell assigns on its way to the IRR
irrLocals == <<hold_years, rent_growth, expense_growth, appreciation, sale_cost_pct,
               exit_cap_rate, model>>

\* the DataFrames of this call and of the one before it
sensFrames == <<score_df, irr_df, calls, prev_score_df, prev_irr_df>>

\* for rs in rent_shocks: score_row = {"rent_shock": rs}; irr_row likewise
SensRowBegin ==
    /\ pc = "sens_row"
    /\ UNCHANGED callVars
    /\ ri <= Len(rent_shocks)
    /\ score_row' = new_row(rent_shocks[ri])
    /\ irr_row' = new_row(rent_shocks[ri])
    /\ ci' = 1
    /\ pc' = "sens_cell"
    /\ UNCHANGED <<sensFrame, scoreLocals, irrLocals, sensFrames, p, session, ri, pp,
                   score_rows, irr_rows>>

\* for irs in rate_shocks: pp = PropertyData(**asdict(p)), the two shocks,
\* nums = compute_numbers(pp)
SensCellNumbers ==
    /\ pc = "sens_cell"
    /\ UNCHANGED callVars
    /\ ci <= Len(rate_shocks)
    /\ LET cs == clone_and_shock(p, rent_shocks[ri], rate_shocks[ci])
       IN  /\ ~compute_numbers_raises(cs.clone)
           /\ p' = cs.original
           /\ pp' = cs.clone
    /\ nums' = compute_numbers(pp')
    /\ pc' = "sens_score"
    /\ UNCHANGED <<sensFrame, irrLocals, sensFrames, session, ri, ci, score_row, irr_row,
                   score_rows, irr_rows, weights, metrics, base_score, norm_w, flags,
                   penalty, killed, final_score>>

\* compute_numbers(pp) raises ZeroDivisionError, and sensitivity_matrix with it
SensCellRaises ==
    /\ pc = "sens_cell"
    /\ UNCHANGED callVars
    /\ ci <= Len(rate_shocks)
    /\ LET cs == clone_and_shock(p, rent_shocks[ri], rate_shocks[ci])
       IN  /\ compute_numbers_raises(cs.clone)
           /\ p' = cs.original
           /\ pp' = cs.clone
    /\ pc' = "raised"
    /\ UNCHANGED <<sensFrame, scoreLocals, irrLocals, sensFrames, session, ri, ci,
                   score_row, irr_row, score_rows, irr_rows>>

\* weights ... final_score; score_row[label] = round(final_score, 1)
SensCellScore ==
    /\ pc = "sens_score"
    /\ UNCHANGED callVars
    /\ weights' = get_base_weights(rate_env)
    /\ metrics' = available_metrics(pp, nums, included)
    /\ base_score' = normalized_score(metrics', weights')[1]
    /\ norm_w' = normalized_score(metrics', weights')[2]
    /\ flags' = ai_flags(pp, nums, included)
    /\ penalty' = ai_penalty(flags')
    /\ killed' = kill_switch(nums, pp, included)
    /\ final_score' = final_score_of(base_score', penalty')
    /\ score_row' = row_set(score_row, rate_label(rate_shocks[ci]), round_to(final_score', 1))
    /\ pc' = "sens_irr"
    /\ UNCHANGED <<sensFrame, irrLocals, sensFrames, p, session, ri, ci, pp, nums, irr_row,
                   score_rows, irr_rows>>

\* the assumptions read from the session, model = project_cashflows(pp, nums, ...),
\* irr_row[label] = round(irr*100, 2) if irr is not None else None
SensCellProject ==
    /\ pc = "sens_irr"
    /\ UNCHANGED callVars
    /\ hold_years' = assumptions(session).hold_years
    /\ rent_growth' = assumptions(session).rent_growth
    /\ expense_growth' = assumptions(session).expense_growth
    /\ appreciation' = assumptions(session).appreciation
    /\ sale_cost_pct' = assumptions(session).sale_cost_pct
    /\ exit_cap_rate' = assumptions(session).exit_cap_rate
    /\ ~project_cashflows_raises(pp, nums, hold_years', rent_growth', expense_growth',
                                 appreciation', sale_cost_pct', exit_cap_rate')
    /\ model' = project_cashflows(pp, nums, hold_years', rent_growth', expense_growth',
                                  appreciation', sale_cost_pct', exit_cap_rate', np_irr)
    /\ irr_row' = row_set(irr_row, rate_label(rate_shocks[ci]), irr_percent(model'.irr))
    /\ ci' = ci + 1
    /\ pc' = "sens_cell"
    /\ UNCHANGED <<sensFrame, scoreLocals, sensFrames, p, session, ri, pp, score_row,
                   score_rows, irr_rows>>

\* score_rows.append(score_row); irr_rows.append(irr_row)
SensRowEnd ==
    /\ pc = "sens_cell"
    /\ UNCHANGED callVars
    /\ ci > Len(rate_shocks)
    /\ score_rows' = Append(score_rows, score_row)
    /\ irr_rows' = Append(irr_rows, irr_row)
    /\ ri' = ri + 1
    /\ pc' = "sens_row"
    /\ UNCHANGED <<sensFrame, scoreLocals, irrLocals, sensFrames, p, session, ci, pp,
                   score_row, irr_row>>

\* the two DataFrames are built and returned
SensReturn ==
    /\ pc = "sens_row"
    /\ UNCHANGED callVars
    /\ ri > Len(rent_shocks)
    /\ score_rows # <<>>
    /\ score_df' = DataFrame(score_rows)
    /\ irr_df' = DataFrame(irr_rows)
    /\ calls' = calls + 1
    /\ pc' = "sens_done"
    /\ UNCHANGED <<sensFrame, scoreLocals, irrLocals, p, session, ri, ci, pp, score_row,
                   irr_row, score_rows, irr_rows, prev_score_df, prev_irr_df>>

\* no rows: pd.DataFrame([]) has no rent_shock column and set_index raises
\* KeyError
SensReturnRaises ==
    /\ pc = "sens_row"
    /\ UNCHANGED callVars
    /\ ri > Len(rent_shocks)
    /\ score_rows = <<>>
    /\ pc' = "raised"
    /\ UNCHANGED <<sensFrame, scoreLocals, irrLocals, sensFrames, p, session, ri, ci, pp,
                   score_row, irr_row, score_rows, irr_rows>>

\* "Apply builder template to Terminal": the seven adv_* entries are set
ApplyTemplate ==
    /\ pc = "sens_done"
    /\ UNCHANGED callVars
    /\ session' \in TemplateSessions \ {session}
    /\ pc' = "sens_idle"
    /\ UNCHANGED <<sensFrame, scoreLocals, irrLocals, sensFrames, p, ri, ci, pp, score_row,
                   irr_row, score_rows, irr_rows>>

\* "Run sensitivity" again with the same arguments
SensCallAgain ==
    /\ pc \in {"sens_done", "sens_idle"}
    /\ UNCHANGED callVars
    /\ calls < MaxSensCalls
    /\ prev_score_df' = score_df
    /\ prev_irr_df' = irr_df
    /\ score_rows' = <<>>
    /\ irr_rows' = <<>>
    /\ ri' = 1
    /\ ci' = 0
    /\ pc' = "sens_row"
    /\ UNCHANGED <<sensFrame, scoreLocals, irrLocals, p, session, pp, score_row, irr_row,
                   score_df, irr_df, calls>>

NextSens ==
    \/ SensRowBegin
    \/ SensCellNumbers
    \/ SensCellRaises
    \/ SensCellScore
    \/ SensCellProject
    \/ SensRowEnd
    \/ SensReturn
    \/ SensReturnRaises
    \/ ApplyTemplate
    \/ SensCallAgain

SpecSens == InitSens /\ [][NextSens]_vars

-----------------------------------------------------------------------------
(* The cells of one sensitivity_matrix call evaluated by workers, in any    *)
(* order and overlapping in time, after the row-major loop has run on the   *)
(* same arguments.  A worker has its own locals (pp, nums, final_score);    *)
(* the workers share p, the arguments and the session state, and the        *)
(* finished cells are placed in the rows as the loop places them.           *)

\* workers evaluating cells at the same time
NumWorkers == 2

\* a worker before its first cell; between two cells its cell entry is the
\* cell it finished last
IDLE == [stage |-> "idle", cell |-> <<>>, pp |-> None, nums |-> None, final_score |-> None]

InitPar ==
    /\ InitSens
    /\ included = Modules
    /\ rate_env = NORMAL
    /\ np_irr
    /\ p.price # None

\* what the row-major loop leaves behind and the workers do not touch
seqLoop == <<session, ri, ci, pp, score_row, irr_row, score_rows, irr_rows>>

\* the cells are handed out once the row-major call has returned or raised
ParBegin ==
    /\ pc \in {"sens_done", "raised"}
    /\ UNCHANGED callVars
    /\ prev_score_df' = score_df
    /\ prev_irr_df' = irr_df
    /\ todo' = (1..Len(rent_shocks)) \X (1..Len(rate_shocks))
    /\ workers' = [w \in 1..NumWorkers |-> IDLE]
    /\ results' = <<>>
    /\ pc' = "par"
    /\ UNCHANGED <<parFrame, scoreLocals, irrLocals, seqLoop, p, score_df, irr_df, calls>>

\* a worker takes any cell left: pp = PropertyData(**asdict(p)), the two
\* shocks, nums = compute_numbers(pp)
ParTake ==
    /\ pc = "par"
    /\ UNCHANGED callVars
    /\ \E w \in 1..NumWorkers : \E c \in todo :
         LET cs == clone_and_shock(p, rent_shocks[c[1]], rate_shocks[c[2]])
         IN  /\ workers[w].stage = "idle"
             /\ ~compute_numbers_raises(cs.clone)
             /\ p' = cs.original
             /\ \E n \in {compute_numbers(cs.clone)} :
                  workers' = [workers EXCEPT ![w] =
                                 [stage |-> "numbers", cell |-> c, pp |-> cs.clone,
                                  nums |-> n, final_score |-> None]]
             /\ todo' = todo \ {c}
    /\ UNCHANGED <<parFrame, scoreLocals, irrLocals, seqLoop, sensFrames, results, pc>>

\* compute_numbers(pp) raises in a worker, and the evaluation with it
ParTakeRaises ==
    /\ pc = "par"
    /\ UNCHANGED callVars
    /\ \E w \in 1..NumWorkers : \E c \in todo :
         LET cs == clone_and_shock(p, rent_shocks[c[1]], rate_shocks[c[2]])
         IN  /\ workers[w].stage = "idle"
             /\ compute_numbers_raises(cs.clone)
             /\ p' = cs.original
    /\ pc' = "par_raised"
    /\ UNCHANGED <<parFrame, scoreLocals, irrLocals, seqLoop, sensFrames, todo, workers,
                   results>>

\* weights ... final_score of the worker's cell
ParScore ==
    /\ pc = "par"
    /\ UNCHANGED callVars
    /\ \E w \in 1..NumWorkers :
         /\ workers[w].stage = "numbers"
         /\ \E m \in {available_metrics(workers[w].pp, workers[w].nums, included)} :
              \E wts \in {get_base_weights(rate_env)} :
                \E b \in {normalized_score(m, wts)[1]} :
                  \E fs \in {ai_flags(workers[w].pp, workers[w].nums, included)} :
                    \E fin \in {final_score_of(b, ai_penalty(fs))} :
                      workers' = [workers EXCEPT ![w].stage = "scored",
                                                 ![w].final_score = fin]
    /\ UNCHANGED <<parFrame, scoreLocals, irrLocals, seqLoop, sensFrames, p, todo, results,
                   pc>>

\* the assumptions read from the session, project_cashflows(pp, nums, ...);
\* the cell's round(final_score, 1) and rounded IRR are kept under the cell
ParProject ==
    /\ pc = "par"
    /\ UNCHANGED callVars
    /\ \E w \in 1..NumWorkers :
         /\ workers[w].stage = "scored"
         /\ \E a \in {assumptions(session)} :
              /\ ~project_cashflows_raises(workers[w].pp, workers[w].nums, a.hold_years,
                                           a.rent_growth, a.expense_growth,
                                           a.appreciation, a.sale_cost_pct,
                                           a.exit_cap_rate)
              /\ \E mdl \in {project_cashflows(workers[w].pp, workers[w].nums,
                                               a.hold_years, a.rent_growth,
                                               a.expense_growth, a.appreciation,
                                               a.sale_cost_pct, a.exit_cap_rate, np_irr)} :
                   results' = results @@
                       (workers[w].cell :> [score |-> round_to(workers[w].final_score, 1),
                                            irr |-> irr_percent(mdl.irr)])
         /\ workers' = [workers EXCEPT ![w] = [IDLE EXCEPT !.cell = workers[w].cell]]
    /\ UNCHANGED <<parFrame, scoreLocals, irrLocals, seqLoop, sensFrames, p, todo, pc>>

\* row i as the inner loop fills it: row[label] = value for the rate shocks
\* from position j on, in their order
RECURSIVE fill_row(_, _, _, _, _)
fill_row(row, labels, cells, i, j) ==
    IF j > Len(labels) THEN row
    ELSE fill_row(row_set(row, labels[j], cells[<<i, j>>]), labels, cells, i, j + 1)

\* the list of row dicts of one grid
rows_of(rents, rates, cells) ==
    [i \in 1..Len(rents) |->
        fill_row(new_row(rents[i]), [j \in 1..Len(rates) |-> rate_label(rates[j])],
                 cells, i, 1)]

\* every cell is finished: the rows are filled and the two DataFrames built
ParAssemble ==
    /\ pc = "par"
    /\ UNCHANGED callVars
    /\ todo = {}
    /\ \A w \in 1..NumWorkers : workers[w].stage = "idle"
    /\ rent_shocks # <<>>
    /\ score_df' = DataFrame(rows_of(rent_shocks, rate_shocks,
                                     [c \in DOMAIN results |-> results[c].score]))
    /\ irr_df' = DataFrame(rows_of(rent_shocks, rate_shocks,
                                   [c \in DOMAIN results |-> results[c].irr]))
    /\ calls' = calls + 1
    /\ pc' = "par_done"
    /\ UNCHANGED <<parFrame, scoreLocals, irrLocals, seqLoop, p, prev_score_df,
                   prev_irr_df, todo, workers, results>>

\* no rows: set_index raises KeyError as it does after the loop
ParAssembleRaises ==
    /\ pc = "par"
    /\ UNCHANGED callVars
    /\ todo = {}
    /\ \A w \in 1..NumWorkers : workers[w].stage = "idle"
    /\ rent_shocks = <<>>
    /\ pc' = "par_raised"
    /\ UNCHANGED <<parFrame, scoreLocals, irrLocals, seqLoop, sensFrames, p, todo, workers,
                   results>>

NextPar ==
    \/ SensRowBegin
    \/ SensCellNumbers
    \/ SensCellRaises
    \/ SensCellScore
    \/ SensCellProject
    \/ SensRowEnd
    \/ SensReturn
    \/ SensReturnRaises
    \/ ParBegin
    \/ ParTake
    \/ ParTakeRaises
    \/ ParScore
    \/ ParProject
    \/ ParAssemble
    \/ ParAssembleRaises

SpecPar == InitPar /\ [][NextPar]_vars

-----------------------------------------------------------------------------
(* monthly_payment on drawn principals, rates and terms.                    *)

\* longest term monthly_payment is given, in years
MaxTerm == 10

PrincipalProbes == {R(-120000), R(0), R(60), R(4095), R(120000)}

\* annual rates in percent: negative, zero, and one positive rate
AnnualRateProbes == {R(-1200), R(-6), Rat(-1, 2), R(0), R(1200)}

\* the positive rate is given terms of at most a year (the payment stays small)
AmortizationInputs ==
    {a \in [principal : PrincipalProbes, annual_rate_pct : AnnualRateProbes,
            term_years : -1..MaxTerm] :
        RLt(R(0), a.annual_rate_pct) => a.term_years \in 0..1}

InitPayment ==
    /\ pc = "pay_call"
    /\ amort \in AmortizationInputs
    /\ payment = None
    /\ NoIrr
    /\ NoCredits
    /\ full = BaseRecord
    /\ removed = "none"
    /\ p = BaseRecord
    /\ included = {}
    /\ rate_env = NORMAL
    /\ NoResults
    /\ NoNarrative
    /\ NoSensitivity
    /\ NoProjection

\* payment = monthly_payment(principal, annual_rate_pct, term_years)
CallMonthlyPayment ==
    /\ pc = "pay_call"
    /\ ~monthly_payment_raises(amort.principal, amort.annual_rate_pct, amort.term_years)
    /\ payment' = monthly_payment(amort.principal, amort.annual_rate_pct, amort.term_years)
    /\ pc' = "pay_done"
    /\ UNCHANGED <<p, full, removed, included, rate_env, nums, weights, metrics,
                   base_score, norm_w, flags, penalty, killed, final_score, g, verdict>>
    /\ UNCHANGED <<narrVars, sensVars, projVars, amort, irrVars, creditVars>>

\* monthly_payment raises ZeroDivisionError
CallMonthlyPaymentRaises ==
    /\ pc = "pay_call"
    /\ monthly_payment_raises(amort.principal, amort.annual_rate_pct, amort.term_years)
    /\ pc' = "raised"
    /\ UNCHANGED <<p, full, removed, included, rate_env, nums, weights, metrics,
                   base_score, norm_w, flags, penalty, killed, final_score, g, verdict>>
    /\ UNCHANGED <<narrVars, sensVars, projVars, callVars>>

NextPayment == CallMonthlyPayment \/ CallMonthlyPaymentRaises

SpecPayment == InitPayment /\ [][NextPayment]_vars

-----------------------------------------------------------------------------
(* _irr statement by statement, on drawn series.                            *)

\* longest series _irr is given
MaxFlows == 3

FlowProbes == {R(-2), R(-1), R(0), R(1), R(3)}

FlowSeries == UNION {[1..k -> FlowProbes] : k \in 0..MaxFlows}

InitIrr ==
    /\ pc = "irr_try"
    /\ cashflows \in FlowSeries
    /\ np_irr \in BOOLEAN
    /\ irr_r = None
    /\ irr_ret = None
    /\ NoAmortization
    /\ NoCredits
    /\ full = BaseRecord
    /\ removed = "none"
    /\ p = BaseRecord
    /\ included = {}
    /\ rate_env = NORMAL
    /\ NoResults
    /\ NoNarrative
    /\ rent_shocks = <<>>
    /\ rate_shocks = <<>>
    /\ session = <<>>
    /\ base_nums = None
    /\ ri = 0
    /\ ci = 0
    /\ pp = None
    /\ score_row = None
    /\ irr_row = None
    /\ score_rows = <<>>
    /\ irr_rows = <<>>
    /\ score_df = None
    /\ irr_df = None
    /\ calls = 0
    /\ prev_score_df = None
    /\ prev_irr_df = None
    /\ todo = {}
    /\ workers = <<>>
    /\ results = <<>>
    /\ hold_years = 0
    /\ rent_growth = None
    /\ expense_growth = None
    /\ appreciation = None
    /\ sale_cost_pct = None
    /\ exit_cap_rate = None
    /\ yr = 0
    /\ noi = None
    /\ debt = None
    /\ model = None

\* r = _np.irr(_np.array(cashflows, dtype=float))
IrrNumpy ==
    /\ pc = "irr_try"
    /\ ~np_irr_raises(cashflows, np_irr)
    /\ irr_r' = np_irr_value(cashflows)
    /\ pc' = "irr_test"
    /\ UNCHANGED <<p, full, removed, included, rate_env, nums, weights, metrics,
                   base_score, norm_w, flags, penalty, killed, final_score, g, verdict>>
    /\ UNCHANGED <<narrVars, sensVars, projVars, amortVars, creditVars, irr_ret>>

\* _np.irr raises: control goes to `except Exception`
IrrNumpyRaises ==
    /\ pc = "irr_try"
    /\ np_irr_raises(cashflows, np_irr)
    /\ pc' = "irr_except"
    /\ UNCHANGED <<p, full, removed, included, rate_env, nums, weights, metrics,
                   base_score, norm_w, flags, penalty, killed, final_score, g, verdict>>
    /\ UNCHANGED <<narrVars, sensVars, projVars, callVars>>

\* if r is None or _np.isnan(r): return None
IrrReturnNone ==
    /\ pc = "irr_test"
    /\ irr_r = None \/ irr_r = NAN
    /\ irr_ret' = irr_result(irr_r)
    /\ pc' = "irr_done"
    /\ UNCHANGED <<p, full, removed, included, rate_env, nums, weights, metrics,
                   base_score, norm_w, flags, penalty, killed, final_score, g, verdict>>
    /\ UNCHANGED <<narrVars, sensVars, projVars, amortVars, creditVars, irr_r>>

\* return float(r)
IrrReturnRate ==
    /\ pc = "irr_test"
    /\ ~(irr_r = None \/ irr_r = NAN)
    /\ irr_ret' = irr_result(irr_r)
    /\ pc' = "irr_done"
    /\ UNCHANGED <<p, full, removed, included, rate_env, nums, weights, metrics,
                   base_score, norm_w, flags, penalty, killed, final_score, g, verdict>>
    /\ UNCHANGED <<narrVars, sensVars, projVars, amortVars, creditVars, irr_r>>

\* except Exception: return None
IrrExcept ==
    /\ pc = "irr_except"
    /\ irr_ret' = None
    /\ pc' = "irr_done"
    /\ UNCHANGED <<p, full, removed, included, rate_env, nums, weights, metrics,
                   base_score, norm_w, flags, penalty, killed, final_score, g, verdict>>
    /\ UNCHANGED <<narrVars, sensVars, projVars, amortVars, creditVars, irr_r>>

NextIrr == IrrNumpy \/ IrrNumpyRaises \/ IrrReturnNone \/ IrrReturnRate \/ IrrExcept

SpecIrr == InitIrr /\ [][NextIrr]_vars

\* the interpreter runs a started call on: every enabled statement is executed
SpecIrrFair == SpecIrr /\ WF_vars(NextIrr)

\* the statements return what irr_of gives in one evaluation
IrrStepsAgree == pc = "irr_done" => irr_ret = irr_of(cashflows, np_irr)

-----------------------------------------------------------------------------
(* Credits: get_user, set_paid and spend_credit on the users row of the     *)
(* signed-in email.  Every call opens its own connection (_db), and every   *)
(* statement is one step on the stored row.                                 *)

FREE_CREDITS == 2
PRO_CREDITS == 5000
CREDIT_COST_PER_ANALYSIS == 1

\* sessions signed in with the same email
NumSessions == 2
\* most credits stored before the first call
MaxCredits == 3
\* largest amount spend_credit is called with
MaxAmount == 2
\* calls (runs of the script) the sessions make in all
MaxRuns == 3

Sessions == 1..NumSessions

\* the users rows the calls start from
StoredRows == {[credits |-> c, paid |-> b] : c \in 0..MaxCredits, b \in {0, 1}}

\* a session before its first call: the position, the number of the call,
\* the locals user, credits, paid and result, the value returned by
\* spend_credit, the calls that returned True and the credits the call has
\* taken from the row
Session ==
    [at |-> "idle", n |-> 0, user |-> None, credits |-> None, paid |-> None,
     ret |-> None, oks |-> 0, spent |-> 0, result |-> None]

\* the calls (runs of the script) sessions 1..i have started
RECURSIVE started(_, _)
started(rs, i) == IF i = 0 THEN 0 ELSE rs[i].n + started(rs, i - 1)

\* spend_credit from the SELECT to the UPDATE: row = cur.fetchone();
\* if not row: return False; credits, paid = ...; if paid: return True;
\* if credits < amount: return False
spend_credit_select(row, amt, me) ==
    IF row = None THEN [me EXCEPT !.at = "returned", !.ret = <<FALSE>>]
    ELSE LET read == [me EXCEPT !.credits = row.credits, !.paid = row.paid]
         IN  IF row.paid # 0
             THEN [read EXCEPT !.at = "returned", !.ret = <<TRUE>>, !.oks = @ + 1]
             ELSE IF row.credits < amt
             THEN [read EXCEPT !.at = "returned", !.ret = <<FALSE>>]
             ELSE [read EXCEPT !.at = "update"]

\* UPDATE users SET credits = credits - ?: on the stored row, whatever the
\* call has read
spend_credit_update(row, amt) ==
    IF row = None THEN row ELSE [row EXCEPT !.credits = @ - amt]

\* UPDATE users SET paid=?, credits=? with paid = 1
set_paid(row) ==
    IF row = None THEN row ELSE [credits |-> PRO_CREDITS, paid |-> 1]

InitSpend ==
    /\ pc = "spend"
    /\ users \in {None} \cup StoredRows
    /\ credits0 = IF users = None THEN 0 ELSE users.credits
    /\ amount \in 1..MaxAmount
    /\ runs = [i \in Sessions |-> Session]
    /\ analyses = <<>>
    /\ NoAmortization
    /\ NoIrr
    /\ full = BaseRecord
    /\ removed = "none"
    /\ p = BaseRecord
    /\ included = {}
    /\ rate_env = NORMAL
    /\ NoResults
    /\ NoNarrative
    /\ NoSensitivity
    /\ NoProjection

\* the SELECT of a call and the tests on what it read
SpendSelect ==
    /\ pc \in {"spend", "terminal"}
    /\ \E i \in Sessions :
         /\ runs[i].at = "select"
         /\ runs' = [runs EXCEPT ![i] = spend_credit_select(users, amount, runs[i])]
    /\ UNCHANGED <<pipeVars, narrVars, sensVars, projVars, amortVars, irrVars,
                   users, analyses, amount, credits0>>

\* the UPDATE, conn.commit() and return True
SpendUpdate ==
    /\ pc \in {"spend", "terminal"}
    /\ \E i \in Sessions :
         /\ runs[i].at = "update"
         /\ users' = spend_credit_update(users, amount)
         /\ runs' = [runs EXCEPT ![i].at = "returned", ![i].ret = <<TRUE>>,
                                 ![i].oks = @ + 1, ![i].spent = @ + amount]
    /\ UNCHANGED <<pipeVars, narrVars, sensVars, projVars, amortVars, irrVars,
                   analyses, amount, credits0>>

\* a session calls spend_credit(email, amount)
SpendCall ==
    /\ pc = "spend"
    /\ \E i \in Sessions :
         /\ runs[i].at \in {"idle", "returned"}
         /\ started(runs, NumSessions) < MaxRuns
         /\ runs' = [runs EXCEPT ![i].at = "select", ![i].n = @ + 1,
                                 ![i].ret = None, ![i].credits = None,
                                 ![i].paid = None]
    /\ UNCHANGED <<pipeVars, narrVars, sensVars, projVars, amortVars, irrVars,
                   users, analyses, amount, credits0>>

NextSpend == SpendCall \/ SpendSelect \/ SpendUpdate

SpecSpend == InitSpend /\ [][NextSpend]_vars

\* the calls of spend_credit that have returned True
RECURSIVE true_returns(_)
true_returns(i) == IF i = 0 THEN 0 ELSE runs[i].oks + true_returns(i - 1)

-----------------------------------------------------------------------------
(* The Terminal page: each session runs the script from get_user to          *)
(* save_analysis; a press of a button runs the script again.                *)

\* the Deal Records the runs are given: one that scores and one on which
\* compute_numbers raises
TerminalRecords == {BaseRecord, [BaseRecord EXCEPT !.term_years = R(0)]}

\* a script that goes on to the scoring whatever spend_credit returned
run_after_spend_no_stop(ret) == "score"

\* if not spend_credit(...): st.error, render_paywall, st.stop()
run_after_spend(ret) == IF ret = <<TRUE>> THEN "score" ELSE "stopped"

\* if (not user["paid"]) and (user["credits"] < CREDIT_COST_PER_ANALYSIS)
paywall_gate(user) == user.paid = 0 /\ user.credits < CREDIT_COST_PER_ANALYSIS

InitTerminal ==
    /\ pc = "terminal"
    /\ users \in {None} \cup StoredRows
    /\ credits0 = IF users = None THEN FREE_CREDITS ELSE users.credits
    /\ amount = CREDIT_COST_PER_ANALYSIS
    /\ runs = [i \in Sessions |-> Session]
    /\ analyses = <<>>
    /\ NoAmortization
    /\ NoIrr
    /\ full = BaseRecord
    /\ removed = "none"
    /\ p = BaseRecord
    /\ included = Modules
    /\ rate_env = NORMAL
    /\ NoResults
    /\ NoNarrative
    /\ NoSensitivity
    /\ NoProjection

\* get_user: the SELECT, and the return of a row that is there
TermGetUser ==
    /\ pc = "terminal"
    /\ \E i \in Sessions :
         /\ runs[i].at = "get_user"
         /\ runs' = [runs EXCEPT ![i] =
                        IF users = None THEN [runs[i] EXCEPT !.at = "insert"]
                        ELSE [runs[i] EXCEPT !.at = "gate", !.user = users]]
    /\ UNCHANGED <<pipeVars, narrVars, sensVars, projVars, amortVars, irrVars,
                   users, analyses, amount, credits0>>

\* get_user: the INSERT with FREE_CREDITS, conn.commit() and the return
TermInsert ==
    /\ pc = "terminal"
    /\ \E i \in Sessions :
         /\ runs[i].at = "insert"
         /\ users = None
         /\ users' = [credits |-> FREE_CREDITS, paid |-> 0]
         /\ runs' = [runs EXCEPT ![i].at = "gate",
                                 ![i].user = [credits |-> FREE_CREDITS, paid |-> 0]]
    /\ UNCHANGED <<pipeVars, narrVars, sensVars, projVars, amortVars, irrVars,
                   analyses, amount, credits0>>

\* get_user: the INSERT of an email another session has inserted since the
\* SELECT raises sqlite3.IntegrityError (email is the primary key)
TermInsertRaises ==
    /\ pc = "terminal"
    /\ \E i \in Sessions :
         /\ runs[i].at = "insert"
         /\ users # None
         /\ runs' = [runs EXCEPT ![i].at = "raised"]
    /\ UNCHANGED <<pipeVars, narrVars, sensVars, projVars, amortVars, irrVars,
                   users, analyses, amount, credits0>>

\* the gate of the page closes: render_paywall, demo_admin_unlock, st.stop()
TermPaywall ==
    /\ pc = "terminal"
    /\ \E i \in Sessions :
         /\ runs[i].at = "gate"
         /\ paywall_gate(runs[i].user)
         /\ runs' = [runs EXCEPT ![i].at = "paywall"]
    /\ UNCHANGED <<pipeVars, narrVars, sensVars, projVars, amortVars, irrVars,
                   users, analyses, amount, credits0>>

\* "Unlock this account" with the unlock code: set_paid(email, 1)
TermUnlock ==
    /\ pc = "terminal"
    /\ \E i \in Sessions : runs[i].at = "paywall"
    /\ users' = set_paid(users)
    /\ UNCHANGED <<pipeVars, narrVars, sensVars, projVars, amortVars, irrVars,
                   analyses, runs, amount, credits0>>

\* the gate is open and "Run AIRE Score" is pressed: spend_credit is called
TermPress ==
    /\ pc = "terminal"
    /\ \E i \in Sessions :
         /\ runs[i].at = "gate"
         /\ ~paywall_gate(runs[i].user)
         /\ runs' = [runs EXCEPT ![i].at = "select"]
    /\ UNCHANGED <<pipeVars, narrVars, sensVars, projVars, amortVars, irrVars,
                   users, analyses, amount, credits0>>

\* the test of what spend_credit returned
TermSpent ==
    /\ pc = "terminal"
    /\ \E i \in Sessions :
         /\ runs[i].at = "returned"
         /\ runs' = [runs EXCEPT ![i].at = run_after_spend(runs[i].ret)]
    /\ UNCHANGED <<pipeVars, narrVars, sensVars, projVars, amortVars, irrVars,
                   users, analyses, amount, credits0>>

\* p = PropertyData(...), nums ... g, verdict = grade(final_score, killed),
\* result = {...}
TermScore ==
    /\ pc = "terminal"
    /\ \E i \in Sessions : \E q \in TerminalRecords :
         /\ runs[i].at = "score"
         /\ ~compute_numbers_raises(q)
         /\ \E n \in {compute_numbers(q)} :
             \E m \in {available_metrics(q, n, included)} :
              \E wts \in {get_base_weights(rate_env)} :
               \E b \in {normalized_score(m, wts)[1]} :
                \E fs \in {ai_flags(q, n, included)} :
                 \E fin \in {final_score_of(b, ai_penalty(fs))} :
                  \E gv \in {grade(fin, kill_switch(n, q, included))} :
                    runs' = [runs EXCEPT ![i].at = "save",
                                         ![i].result = [grade |-> gv[1],
                                                        verdict |-> gv[2]]]
    /\ UNCHANGED <<pipeVars, narrVars, sensVars, projVars, amortVars, irrVars,
                   users, analyses, amount, credits0>>

\* compute_numbers(p) raises, and the run of the script with it
TermScoreRaises ==
    /\ pc = "terminal"
    /\ \E i \in Sessions : \E q \in TerminalRecords :
         /\ runs[i].at = "score"
         /\ compute_numbers_raises(q)
         /\ runs' = [runs EXCEPT ![i].at = "raised"]
    /\ UNCHANGED <<pipeVars, narrVars, sensVars, projVars, amortVars, irrVars,
                   users, analyses, amount, credits0>>

\* save_analysis(email, p.address, listing_url, result, payload)
TermSave ==
    /\ pc = "terminal"
    /\ \E i \in Sessions :
         /\ runs[i].at = "save"
         /\ analyses' = Append(analyses, [session |-> i, n |-> runs[i].n,
                                         grade |-> runs[i].result.grade,
                                         verdict |-> runs[i].result.verdict])
         /\ runs' = [runs EXCEPT ![i].at = "done"]
    /\ UNCHANGED <<pipeVars, narrVars, sensVars, projVars, amortVars, irrVars,
                   users, amount, credits0>>

\* the page is opened, or a press of a button or a refresh runs the script
\* again from the top
TermRun ==
    /\ pc = "terminal"
    /\ \E i \in Sessions :
         /\ runs[i].at \in {"idle", "paywall", "stopped", "raised", "done"}
         /\ started(runs, NumSessions) < MaxRuns
         /\ runs' = [runs EXCEPT ![i] =
                        [Session EXCEPT !.at = "get_user", !.n = runs[i].n + 1,
                                        !.oks = runs[i].oks]]
    /\ UNCHANGED <<pipeVars, narrVars, sensVars, projVars, amortVars, irrVars,
                   users, analyses, amount, credits0>>

NextTerminal ==
    \/ TermRun
    \/ TermGetUser
    \/ TermInsert
    \/ TermInsertRaises
    \/ TermPaywall
    \/ TermUnlock
    \/ TermPress
    \/ SpendSelect
    \/ SpendUpdate
    \/ TermSpent
    \/ TermScore
    \/ TermScoreRaises
    \/ TermSave

SpecTerminal == InitTerminal /\ [][NextTerminal]_vars

\* the rows saved by run n of session i
SavedBy(i, n) == {k \in 1..Len(analyses) : analyses[k].session = i /\ analyses[k].n = n}

-----------------------------------------------------------------------------
(* Properties.                                                              *)

\* C1 (SpecScorer): weight conservation.  For every non-empty Metrics map over
\* the seven metric names and either regime, the normalized weights returned
\* by normalized_score have exactly the keys of the Metrics map and sum to 1.
C1_WeightConservation ==
    (pc = "normalized" /\ DOMAIN metrics # {}) =>
        /\ DOMAIN norm_w = DOMAIN metrics
        /\ RSum(norm_w, DOMAIN norm_w) = R(1)

\* C1 witness: regime HIGH with only yield and location present gives the
\* weights 0.10/0.22 and 0.12/0.22.
C1_Witness ==
    /\ pc = "normalized"
    /\ rate_env = HIGH
    /\ DOMAIN metrics = {"yield", "location"}
    /\ norm_w["yield"] = Rat(5, 11)
    /\ norm_w["location"] = Rat(6, 11)

\* C3 (SpecGrade): kill-switch dominance.  Whenever the kill switch has fired,
\* grade returns F / PASS whatever the score, scores of 90 and above included.
C3_KillSwitchDominance ==
    (pc = "done" /\ killed) => (g = "F" /\ verdict = "PASS")

\* C3 witness: a killed deal with a score of at least 90 graded F.
C3_Witness ==
    /\ pc = "done"
    /\ killed
    /\ RLe(R(90), final_score)
    /\ g = "F"
    /\ verdict = "PASS"

\* C8 (SpecScorer): for both regimes get_base_weights returns a map over
\* exactly the seven metric names, every weight strictly positive, summing to
\* 1 (100 in hundredths).
C8_BaseWeights ==
    pc \in {"weights", "normalized"} =>
        /\ DOMAIN weights = MetricNames
        /\ \A k \in MetricNames : RLt(R(0), weights[k])
        /\ RSum(weights, MetricNames) = R(1)
        /\ RSum([k \in MetricNames |-> RMul(weights[k], R(100))], MetricNames) = R(100)

\* C8 witness: the HIGH map has been returned.
C8_Witness ==
    /\ pc = "weights"
    /\ rate_env = HIGH
    /\ weights["cashflow"] = Rat(32, 100)
    /\ weights["yield"] = Rat(10, 100)

\* the spellings of HIGH in any letter case
HighSpellings ==
    {s \in [1..4 -> {"h", "H", "i", "I", "g", "G"}] :
        /\ s[1] \in {"h", "H"}
        /\ s[2] \in {"i", "I"}
        /\ s[3] \in {"g", "G"}
        /\ s[4] \in {"h", "H"}}

\* C9 as stated: get_base_weights returns the HIGH map only for the input
\* HIGH; "high", "High", "LOW" and "" get the NORMAL map.
C9_OnlyExactHigh ==
    pc \in {"weights", "normalized"} =>
        /\ (rate_env = HIGH => weights = HIGH_WEIGHTS)
        /\ (rate_env # HIGH => weights = NORMAL_WEIGHTS)

\* C9 amended (SpecScorer): get_base_weights returns the HIGH map exactly for
\* the inputs that spell HIGH in any letter case (HIGH, high, High, ...) and
\* the NORMAL map for every other input.
C9_HighAnyCase ==
    pc \in {"weights", "normalized"} =>
        /\ (rate_env \in HighSpellings => weights = HIGH_WEIGHTS)
        /\ (rate_env \notin HighSpellings => weights = NORMAL_WEIGHTS)

\* C9 witness: the lower-case input "high" has been given the HIGH map.
C9_Witness ==
    /\ pc = "weights"
    /\ rate_env = <<"h", "i", "g", "h">>
    /\ weights = HIGH_WEIGHTS

GradeRank(x) ==
    CASE x = "A" -> 4
      [] x = "B" -> 3
      [] x = "C" -> 2
      [] x = "D" -> 1
      [] x = "F" -> 0

\* C10 (SpecGrade): with the kill switch not fired, grade maps the score by
\* the thresholds >= 90 A / STRONG BUY, [80, 90) B / BUY, [70, 80) C / WATCH,
\* [60, 70) D / SPECULATIVE, < 60 F / PASS, and a higher score never gets a
\* worse grade.
C10_GradeThresholds ==
    (pc = "done" /\ ~killed) =>
        /\ RLe(R(90), final_score) => <<g, verdict>> = <<"A", "STRONG BUY">>
        /\ (RLe(R(80), final_score) /\ RLt(final_score, R(90))) => <<g, verdict>> = <<"B", "BUY">>
        /\ (RLe(R(70), final_score) /\ RLt(final_score, R(80))) => <<g, verdict>> = <<"C", "WATCH">>
        /\ (RLe(R(60), final_score) /\ RLt(final_score, R(70))) => <<g, verdict>> = <<"D", "SPECULATIVE">>
        /\ RLt(final_score, R(60)) => <<g, verdict>> = <<"F", "PASS">>
        /\ \A s \in ScoreProbes :
              RLe(final_score, s) => GradeRank(grade(s, FALSE)[1]) >= GradeRank(g)

\* C10 witness: a score of exactly 80, not killed, graded B / BUY.
C10_Witness ==
    /\ pc = "done"
    /\ ~killed
    /\ final_score = R(80)
    /\ g = "B"
    /\ verdict = "BUY"

\* projection assumptions a call of project_cashflows is given
ProjectionConfigs ==
    [hold_years : {-1, 0, 1}, rent_growth : {Rat(3, 100)}, expense_growth : {Rat(3, 100)},
     appreciation : {R(-1), Rat(3, 100)}, sale_cost_pct : {Rat(7, 100)},
     exit_cap_rate : {None, Rat(13, 200)}]

ProjectionRaises(q, n, c) ==
    project_cashflows_raises(q, n, c.hold_years, c.rent_growth, c.expense_growth,
                             c.appreciation, c.sale_cost_pct, c.exit_cap_rate)

\* the fields of the record respect the data-model ranges
InRange(x, lo, hi) == x = None \/ (RLe(lo, x) /\ RLe(x, hi))

NonNegative(x) == x = None \/ RLe(R(0), x)

ValidRecord(q) ==
    /\ NonNegative(q.days_on_market)
    /\ InRange(q.vacancy_rate, R(0), R(1))
    /\ InRange(q.job_diversity_index, R(0), R(1))
    /\ NonNegative(q.price)
    /\ NonNegative(q.replacement_cost)
    /\ NonNegative(q.monthly_rent)
    /\ NonNegative(q.monthly_expenses)

KillByFinancing ==
    "Financing" \in included /\ nums.dscr_stress # None /\ RLt(nums.dscr_stress, R(1))

KillByRegulation ==
    "Regulation" \in included /\ p.rent_regulation_risk = <<TRUE>>

KillByLiquidity ==
    "Liquidity" \in included /\ p.days_on_market # None /\ RLt(R(180), p.days_on_market)

\* C4 (Spec): kill_switch is true if and only if Financing is included with a
\* present stress DSCR < 1.0, or Regulation is included with
\* rent_regulation_risk true, or Liquidity is included with a present
\* days_on_market > 180; a stress DSCR of exactly 1.0, days_on_market of
\* exactly 180 and an absent stress DSCR do not fire it.
C4_KillSwitchIff ==
    pc \in {"risk", "done"} =>
        /\ killed <=> (KillByFinancing \/ KillByRegulation \/ KillByLiquidity)
        /\ (nums.dscr_stress \in {None, R(1)} /\ ~KillByRegulation /\ ~KillByLiquidity) => ~killed
        /\ (p.days_on_market = R(180) /\ ~KillByRegulation /\ ~KillByFinancing) => ~killed

\* C4 witness: Financing included, stress DSCR exactly 1.0, not killed.
C4_Witness ==
    /\ pc = "done"
    /\ "Financing" \in included
    /\ nums.dscr_stress = R(1)
    /\ ~killed

PastNumbers == pc \in {"numbers", "scored", "risk", "done", "narrated"}

PastScore == pc \in {"scored", "risk", "done", "narrated"}

\* the run's numbers and metrics against those of the full record: an entry
\* present after the removal was present before it
OnlyAbsences ==
    LET fn == compute_numbers(full)
        fm == available_metrics(full, fn, included)
    IN  /\ PastNumbers => \A k \in NumberNames : nums[k] # None => fn[k] # None
        /\ PastScore => DOMAIN metrics \subseteq DOMAIN fm

\* an entry present after the removal has the value it had before it
ValuesKept ==
    LET fn == compute_numbers(full)
        fm == available_metrics(full, fn, included)
    IN  /\ PastNumbers => \A k \in NumberNames : nums[k] # None => nums[k] = fn[k]
        /\ PastScore => \A k \in DOMAIN metrics : metrics[k] = fm[k]

\* the removal makes nothing raise that did not raise on the full record
\* (available_metrics, ai_flags and kill_switch have no raising path: each of
\* their divisions is by a literal or behind a price > 0 test)
NoNewRaise ==
    /\ pc # "raised"
    /\ \A c \in ProjectionConfigs :
          ~ProjectionRaises(full, compute_numbers(full), c) =>
              ~ProjectionRaises(p, compute_numbers(p), c)

\* C5 as stated: removing any single optional field from a fully-populated
\* record makes nothing raise, and Numbers / Metrics entries only become absent:
\* those that stay present keep their values.
C5_OnlyAbsent ==
    (removed # "none" /\ ~compute_numbers_raises(full)) =>
        /\ NoNewRaise
        /\ OnlyAbsences
        /\ ValuesKept

\* C5 amended (Spec): removing any single optional field from a fully-populated
\* record on which nothing raises makes nothing raise, and no Numbers / Metrics
\* entry appears; entries that stay present keep their values, except when
\* the removed field is vacancy_rate: then the numbers and metrics are those of
\* the same record with vacancy_rate = 0.08.
C5_GracefulDegradation ==
    (removed # "none" /\ ~compute_numbers_raises(full)) =>
        /\ NoNewRaise
        /\ OnlyAbsences
        /\ removed # "vacancy_rate" => ValuesKept
        /\ removed = "vacancy_rate" =>
              LET dflt == [full EXCEPT !.vacancy_rate = Rat(8, 100)]
              IN  /\ PastNumbers => nums = compute_numbers(dflt)
                  /\ PastScore => metrics = available_metrics(dflt, compute_numbers(dflt), included)

\* C5 witness: price removed from the base record; cap rate, loan payment and
\* the downside metric have gone, NOI and the location metric are unchanged.
C5_Witness ==
    /\ pc = "done"
    /\ full = BaseRecord
    /\ removed = "price"
    /\ included = Modules
    /\ nums.cap_rate = None
    /\ nums.loan_payment = None
    /\ nums.noi_year = R(84000)
    /\ DOMAIN metrics = {"location", "liquidity", "optionality", "ai_risk"}
    /\ metrics["location"] = Rat(1, 2)

\* C6 as stated: compute_numbers returns without raising for every Deal
\* Record, and a derived quantity whose denominator would be zero or negative
\* is absent (price <= 0 for cap rate, cash invested <= 0 for cash-on-cash, the
\* amortization denominator (1 + r)^n - 1 for term_years = 0 and a positive
\* rate).
C6_NeverRaises ==
    /\ pc # "raised"
    /\ PastNumbers =>
          /\ (p.price # None /\ RLe(p.price, R(0))) => nums.cap_rate = None
          /\ (has_loan_inputs(p) /\ RLe(RMul(p.price, RDiv(p.down_payment_pct, R(100))), R(0)))
                => nums.coc_return = None

\* C7 as stated: for a record with a negative price and every other field
\* populated, every Numbers field derived from price (cap_rate, loan_payment,
\* cash_flow_month, coc_return, dscr_stress) is absent.
C7_NegativePriceAbsent ==
    (PastNumbers /\ removed = "none" /\ RLt(p.price, R(0))) =>
        /\ nums.cap_rate = None
        /\ nums.loan_payment = None
        /\ nums.cash_flow_month = None
        /\ nums.coc_return = None
        /\ nums.dscr_stress = None

\* the point value the penalty table gives a flag text
TablePoints(f) ==
    CASE f = FLAG_AGGRESSIVE -> Rat(6, 100)
      [] f = FLAG_VACANCY    -> Rat(8, 100)
      [] f = FLAG_EXPENSES   -> Rat(6, 100)
      [] f = FLAG_LOW_CAP    -> Rat(6, 100)
      [] f = FLAG_REGULATORY -> Rat(20, 100)
      [] OTHER               -> R(0)

\* the substrings ai_penalty looks for
PenaltyPatterns ==
    {<<"aggressive">>, <<"Vacancy">>, <<"Expenses">>, <<"Low", "cap">>, <<"Regulatory">>}

UncappedPoints == RSum([i \in 1..Len(flags) |-> TablePoints(flags[i])], 1..Len(flags))

\* C11 (SpecFlags): for every flag list ai_flags produces, each flag is one of
\* the five texts and matches exactly one penalty pattern, and ai_penalty is
\* min(0.35, sum of the table points of the flags): within [0, 0.35], and
\* 0.35 whenever the uncapped sum exceeds it.
C11_PenaltyCapped ==
    pc = "risk" =>
        /\ \A i \in 1..Len(flags) :
              /\ flags[i] \in {FLAG_AGGRESSIVE, FLAG_VACANCY, FLAG_EXPENSES,
                                FLAG_LOW_CAP, FLAG_REGULATORY}
              /\ Cardinality({pat \in PenaltyPatterns : Contains(flags[i], pat)}) = 1
        /\ penalty = RMin(Rat(35, 100), UncappedPoints)
        /\ RLe(R(0), penalty)
        /\ RLe(penalty, Rat(35, 100))
        /\ RLt(Rat(35, 100), UncappedPoints) => penalty = Rat(35, 100)

\* C11 witness: four flags worth 0.40 together, the penalty capped at 0.35.
C11_Witness ==
    /\ pc = "risk"
    /\ Len(flags) = 4
    /\ UncappedPoints = Rat(40, 100)
    /\ penalty = Rat(35, 100)

\* the sum of the base weights of the metrics present
PresentWeightSum ==
    RSum([k \in DOMAIN metrics |-> weight_get(weights, k)], DOMAIN metrics)

\* C12 (Spec): for every Deal Record and every included-module set, the empty
\* set included, the Metrics map contains ai_risk with value 1.0, so it is
\* never empty and the renormalization denominator of normalized_score is
\* strictly positive.
C12_AiRiskAlwaysPresent ==
    PastScore =>
        /\ "ai_risk" \in DOMAIN metrics
        /\ metrics["ai_risk"] = R(1)
        /\ DOMAIN metrics # {}
        /\ RLt(R(0), PresentWeightSum)
        /\ renorm_denom(metrics, weights) = PresentWeightSum

\* C12 witness: no module included, the Metrics map holds ai_risk alone.
C12_Witness ==
    /\ pc = "scored"
    /\ included = {}
    /\ DOMAIN metrics = {"ai_risk"}
    /\ metrics["ai_risk"] = R(1)
    /\ PresentWeightSum = Rat(5, 100)

\* the metric a module governs
GovernedMetrics(M) ==
    CASE M = "Financing"   -> {"cashflow"}
      [] M = "Downside"    -> {"downside"}
      [] M = "Location"    -> {"location"}
      [] M = "Yield"       -> {"yield"}
      [] M = "Liquidity"   -> {"liquidity"}
      [] M = "Optionality" -> {"optionality"}
      [] OTHER             -> {}

\* the flag gated on a module
GatedFlags(M) ==
    CASE M = "Rent & Price" -> {FLAG_AGGRESSIVE}
      [] M = "Vacancy"      -> {FLAG_VACANCY}
      [] M = "Expenses"     -> {FLAG_EXPENSES}
      [] M = "Yield"        -> {FLAG_LOW_CAP}
      [] M = "Regulation"   -> {FLAG_REGULATORY}
      [] OTHER              -> {}

\* the narrative strength gated on a module
GatedStrengths(M) ==
    CASE M = "Financing" -> {STRENGTH_COVERAGE}
      [] M = "Yield"     -> {STRENGTH_CAP_RATE}
      [] M = "Downside"  -> {STRENGTH_DOWNSIDE}
      [] M = "Liquidity" -> {STRENGTH_LIQUIDITY}
      [] OTHER           -> {}

\* the data condition of the kill switch gated on a module, the gate left out
KillCondition(M) ==
    CASE M = "Financing"  -> nums.dscr_stress # None /\ RLt(nums.dscr_stress, R(1))
      [] M = "Regulation" -> p.rent_regulation_risk = <<TRUE>>
      [] M = "Liquidity"  -> p.days_on_market # None /\ RLt(R(180), p.days_on_market)
      [] OTHER            -> FALSE

PastRisk == pc \in {"risk", "done", "narrated"}

\* C13 (Spec): module suppression.  For every module M not in the included set
\* and every Deal Record, the metric M governs is absent from the Metrics map,
\* the flag gated on M is not emitted, the kill switch fires only on the
\* condition of an included module, and the narrative strength gated on M is
\* not emitted.
C13_ModuleSuppression ==
    /\ \A M \in Modules \ included :
          /\ PastScore => GovernedMetrics(M) \cap DOMAIN metrics = {}
          /\ PastRisk => \A i \in 1..Len(flags) : flags[i] \notin GatedFlags(M)
          /\ pc = "narrated" =>
                /\ \A i \in 1..Len(strengths) : strengths[i] \notin GatedStrengths(M)
                /\ \A i \in 1..Len(risks) : risks[i] \notin GatedFlags(M)
    /\ (PastRisk /\ killed) => \E M \in included : KillCondition(M)

\* C13 witness: everything but Regulation included on a record with
\* rent_regulation_risk true: no regulatory flag, no kill.
C13_Witness ==
    /\ pc = "narrated"
    /\ included = Modules \ {"Regulation"}
    /\ p.rent_regulation_risk = <<TRUE>>
    /\ \A i \in 1..Len(flags) : flags[i] # FLAG_REGULATORY
    /\ ~killed
    /\ g # "F"

\* the bonus the confidence table gives a metric key
ConfidenceBonus ==
    [cashflow |-> Rat(18, 100), yield |-> Rat(14, 100), downside |-> Rat(10, 100),
     liquidity |-> Rat(5, 100), location |-> Rat(5, 100), optionality |-> R(0),
     ai_risk |-> R(0)]

\* 0.35 + 0.10 x min(len(included) / 7, 1) plus the bonuses of the keys present
UnclampedConfidence ==
    LET n == Cardinality(included)
        frac == IF n >= 7 THEN R(1) ELSE Rat(n, 7)
    IN  RAdd(RAdd(Rat(35, 100), RMul(Rat(10, 100), frac)),
             RSum(ConfidenceBonus, DOMAIN metrics))

\* the Metrics map with key k added
WithKey(m, k) == [x \in DOMAIN m \cup {k} |-> IF x \in DOMAIN m THEN m[x] ELSE R(1)]

\* C14 (SpecConfidence): confidence_from_coverage returns
\* 0.35 + 0.10 x min(len(included) / 7, 1) plus the bonuses of the metric keys
\* present, clamped to [0.35, 0.95]; the result lies in [0.35, 0.95] and does
\* not decrease when a metric key or a module is added.
C14_Confidence ==
    pc = "confidence" =>
        /\ conf = RMax(Rat(35, 100), RMin(UnclampedConfidence, Rat(95, 100)))
        /\ RLe(Rat(35, 100), conf)
        /\ RLe(conf, Rat(95, 100))
        /\ \A k \in MetricNames \ DOMAIN metrics :
              RLe(conf, confidence_from_coverage(WithKey(metrics, k), included))
        /\ \A M \in Modules \ included :
              RLe(conf, confidence_from_coverage(metrics, included \cup {M}))

\* C14 witness: all eleven modules and all seven metrics: 0.97 clamped to 0.95.
C14_Witness ==
    /\ pc = "confidence"
    /\ included = Modules
    /\ DOMAIN metrics = MetricNames
    /\ UnclampedConfidence = Rat(97, 100)
    /\ conf = Rat(95, 100)

\* the sensitivity_matrix call has ended: returned, or left by an exception
SensEnded == pc \in {"sens_done", "raised"}

PairwiseDistinct(xs) == \A i, j \in 1..Len(xs) : i # j => xs[i] # xs[j]

\* a returned grid has n rows of m entries under m column labels
HasShape(df, n, m) ==
    /\ Len(df.index) = n
    /\ Len(df.columns) = m
    /\ \A i \in 1..Len(df.values) : Len(df.values[i]) = m

\* C15: for every sequence of N rent shocks and every sequence of M pairwise
\* distinct rate shocks, the score grid and the IRR grid the call returns
\* have N rows and M columns each, also when two of the rate shocks format
\* to the same column label.
C15_GridShape ==
    (pc = "sens_done" /\ PairwiseDistinct(rate_shocks)) =>
        /\ HasShape(score_df, Len(rent_shocks), Len(rate_shocks))
        /\ HasShape(irr_df, Len(rent_shocks), Len(rate_shocks))

\* df.loc[rs, label] for a row index and a column label that occur once
frame_at(df, rs, label) ==
    LET i == CHOOSE k \in 1..Len(df.index) : df.index[k] = rs
        c == CHOOSE k \in 1..Len(df.columns) : df.columns[k] = label
    IN  df.values[i][c]

HasZero(xs) == \E i \in 1..Len(xs) : xs[i] = R(0)

\* the score cell is round(final_score, 1) of the pipeline run on the
\* unshocked record and its Numbers bundle
IsBaselineScore(v) ==
    \E m \in {available_metrics(full, base_nums, included)} :
      \E w \in {get_base_weights(rate_env)} :
        \E b \in {normalized_score(m, w)[1]} :
          \E fs \in {ai_flags(full, base_nums, included)} :
            \E fin \in {final_score_of(b, ai_penalty(fs))} :
              v = round_to(fin, 1)

\* the IRR cell is round(irr * 100, 2) of project_cashflows on the unshocked
\* record under the assumptions of the session
IsBaselineIrr(v) ==
    \E a \in {assumptions(session)} :
      \E mdl \in {project_cashflows(full, base_nums, a.hold_years, a.rent_growth,
                                    a.expense_growth, a.appreciation, a.sale_cost_pct,
                                    a.exit_cap_rate, np_irr)} :
        v = irr_percent(mdl.irr)

\* C16: when both shock sequences contain 0, the call returns and the cell at
\* (rent shock 0, rate shock 0) holds the final score of the unshocked
\* pipeline rounded to one decimal and the IRR in percent of project_cashflows
\* on the unshocked record rounded to two decimals.
C16_BaselineCell ==
    (SensEnded /\ HasZero(rent_shocks) /\ HasZero(rate_shocks)) =>
        /\ pc = "sens_done"
        /\ IsBaselineScore(frame_at(score_df, R(0), rate_label(R(0))))
        /\ IsBaselineIrr(frame_at(irr_df, R(0), rate_label(R(0))))

\* C17: a sensitivity run leaves the record passed in and the baseline
\* Numbers bundle as they were before the call: every field of p keeps its
\* value (monthly_rent and interest_rate_pct among them) while cells are
\* evaluated and after the call has returned or raised.
C17_BaselineUnchanged ==
    /\ p = full
    /\ base_nums = compute_numbers(full)

\* a call has returned whose last cell worked on a copy that differs from p
\* in the rent and in the rate
C17_Witness ==
    /\ pc = "sens_done"
    /\ pp # None
    /\ pp.monthly_rent # full.monthly_rent
    /\ pp.interest_rate_pct # full.interest_rate_pct
    /\ p = full

\* C18: two sensitivity_matrix calls with the same explicit arguments return
\* the same score grid and the same IRR grid, whatever the session state
\* holds at the time of each call.
C18_NoAmbientState ==
    (pc = "sens_done" /\ calls = 2) =>
        /\ score_df = prev_score_df
        /\ irr_df = prev_irr_df

C20_SeriesShape ==
    (p.price # None /\ hold_years >= 1) =>
        LET fraction == IF p.down_payment_pct = None THEN R(1)
                        ELSE RDiv(p.down_payment_pct, R(100))
            outlay == RNeg(RMul(p.price, fraction))
        IN  /\ pc = "proj_loop" => cashflows[1] = outlay /\ Len(cashflows) = yr
            /\ pc = "proj_done" =>
                  /\ Len(model.cashflows) = hold_years + 1
                  /\ model.cashflows[1] = outlay

\* C20 witness: an all-cash two-year hold: three entries, the first -120,
\* the sale proceeds in the last.
C20_Witness ==
    /\ pc = "proj_done"
    /\ p.price = R(120)
    /\ p.down_payment_pct = None
    /\ hold_years = 2
    /\ Len(model.cashflows) = 3
    /\ model.cashflows[1] = R(-120)
    /\ model.net_sale # R(0)
    /\ model.cashflows[3] = RAdd(RSub(noi, debt), model.net_sale)

\* C21 (SpecProjector): when price is absent, project_cashflows returns an
\* empty cash-flow series with IRR, NPV and exit value all absent, for every
\* combination of the other inputs, and never raises nor enters the
\* operating loop.
C21_NoPriceEmpty ==
    p.price = None =>
        /\ pc \in {"proj_start", "proj_done"}
        /\ pc = "proj_done" =>
              /\ model.cashflows = <<>>
              /\ model.irr = None
              /\ model.npv = None
              /\ model.exit_value = None

\* C21 witness: no price, with the arguments on which a priced record raises
\* (hold_years = -1, appreciation = -1, no exit cap): the empty result.
C21_Witness ==
    /\ pc = "proj_done"
    /\ p.price = None
    /\ p.monthly_rent # None
    /\ hold_years = -1
    /\ appreciation = R(-1)
    /\ exit_cap_rate = None
    /\ nums = EmptyNumbers
    /\ model.cashflows = <<>>
    /\ model.exit_value = None

\* C22 (SpecProjector): a call with hold_years <= 0 is rejected at the request
\* boundary: project_cashflows returns no computed projection for it (no
\* cash-flow series, exit value, IRR or NPV).
C22_NonPositiveHoldRejected ==
    (hold_years <= 0 /\ pc = "proj_done") =>
        /\ model.cashflows = <<>>
        /\ model.exit_value = None
        /\ model.irr = None
        /\ model.npv = None

\* what C23 says of a returned projection of a priced record
NetSaleAsClaimed(at_least_one_year) ==
    LET fraction == IF p.down_payment_pct = None THEN R(1)
                    ELSE RDiv(p.down_payment_pct, R(100))
        equity == RMul(p.price, fraction)
        loan == RMul(p.price, RSub(R(1), fraction))
        proceeds == RSub(RMul(model.exit_value, RSub(R(1), sale_cost_pct)), loan)
        last == Len(model.cashflows)
        operating == operating_series(p, nums, hold_years, rent_growth, expense_growth)
    IN  /\ RAdd(equity, loan) = p.price
        /\ p.down_payment_pct = None => loan = R(0)
        /\ model.net_sale = proceeds
        /\ at_least_one_year => last >= 2
        /\ last >= 2 =>
              /\ model.cashflows[last] = RAdd(operating[last], proceeds)
              /\ \A i \in 1..(last - 1) : model.cashflows[i] = operating[i]
              /\ model.cashflows[1] = RNeg(equity)

\* C23 (SpecProjector): in every projection project_cashflows returns for a
\* priced record, net sale proceeds are exit_value x (1 - sale_cost_pct) less
\* the original loan amount price x (1 - down-payment fraction), the fraction
\* being that of the initial equity (equity + loan = price, loan 0 for an
\* all-cash deal), and the proceeds are added to the final year's cash flow
\* and to no other entry.
C23_NetSaleProceeds ==
    (pc = "proj_done" /\ p.price # None) => NetSaleAsClaimed(TRUE)

\* the same for holds of a year or more, and the amounts alone for the others
C23_NetSaleFromOneYear ==
    (pc = "proj_done" /\ p.price # None) => NetSaleAsClaimed(hold_years >= 1)

\* the vacancy implied by an occupancy percentage
ImpliedVacancy(occupancy_pct) == RSub(R(1), RDiv(occupancy_pct, R(100)))

\* the occupancy percentages the records are compared on
OccupancyProbes == {R(0), R(50), R(90), R(100)}

\* C24 (Spec): when occupancy_pct and vacancy_rate are both supplied, the
\* vacancy used for NOI and for the stress DSCR is the one implied by
\* occupancy_pct, and a record that differs only in occupancy_pct (with a
\* rent that is not 0) has a different NOI.
C24_OccupancyPrecedence ==
    (/\ PastNumbers
     /\ p.occupancy_pct # None /\ p.vacancy_rate # None
     /\ p.monthly_rent # None /\ p.monthly_expenses # None) =>
        LET vac == ImpliedVacancy(p.occupancy_pct)
            kept == RSub(R(1), vac)
        IN  /\ nums.noi_year = RMul(RSub(RMul(p.monthly_rent, kept), p.monthly_expenses), R(12))
            /\ nums.dscr_stress # None =>
                  nums.dscr_stress =
                      RDiv(RSub(RMul(RMul(p.monthly_rent, Rat(80, 100)), kept),
                                p.monthly_expenses),
                           RMax(nums.loan_payment, R(1)))
            /\ p.monthly_rent # R(0) =>
                  \A o \in OccupancyProbes \ {p.occupancy_pct} :
                      compute_numbers([p EXCEPT !.occupancy_pct = o]).noi_year # nums.noi_year

\* C25 (SpecPayment): for every annual rate <= 0, monthly_payment does not
\* raise, also for term_years = 0, and returns principal / max(term_years x 12, 1);
\* for principal 120000, rate 0% and ten years the payment is exactly 1000.
C25_ZeroRatePayment ==
    RLe(amort.annual_rate_pct, R(0)) =>
        LET months == amort.term_years * 12
            periods == IF months > 1 THEN months ELSE 1
        IN  /\ pc # "raised"
            /\ pc = "pay_done" =>
                  /\ RMul(payment, R(periods)) = amort.principal
                  /\ (/\ amort.principal = R(120000)
                      /\ amort.annual_rate_pct = R(0)
                      /\ amort.term_years = 10) => payment = R(1000)

\* C25 witness: the zero-rate example: 120000 over 120 months.
C25_Witness ==
    /\ pc = "pay_done"
    /\ amort = [principal |-> R(120000), annual_rate_pct |-> R(0), term_years |-> 10]
    /\ payment = R(1000)

\* a zero-year term at a negative rate is paid in one period
ZeroTermPaidAtOnce ==
    /\ pc = "pay_done"
    /\ amort = [principal |-> R(4095), annual_rate_pct |-> R(-6), term_years |-> 0]
    /\ payment = R(4095)

\* the record with the default vacancy written out
WithDefaultVacancy(q) == [q EXCEPT !.vacancy_rate = Rat(8, 100)]

\* C26 (SpecProjector): a Deal Record with vacancy_rate absent has the Numbers
\* bundle of the same record with vacancy_rate = 0.08, the same NOI seed in
\* project_cashflows (with the bundle's NOI and with the NOI recomputed from
\* rent and expenses), and so the same returned projection.
C26_DefaultVacancy ==
    p.vacancy_rate = None =>
        LET p8 == WithDefaultVacancy(p)
            nums8 == IF nums = EmptyNumbers THEN EmptyNumbers ELSE compute_numbers(p8)
        IN  /\ nums = nums8
            /\ (pc = "proj_loop" /\ yr = 1) => noi = or_zero(noi_seed(p8, nums8))
            /\ pc = "proj_done" =>
                  model = project_cashflows(p8, nums8, hold_years, rent_growth,
                                            expense_growth, appreciation, sale_cost_pct,
                                            exit_cap_rate, np_irr)

\* C26 witness: no vacancy_rate and a bundle without NOI: the seed recomputed
\* from rent 20 and expenses 4 is (20 x 0.92 - 4) x 12 = 172.8, the first
\* year's cash flow.
C26_Witness ==
    /\ pc = "proj_loop"
    /\ yr = 2
    /\ p.vacancy_rate = None
    /\ nums = EmptyNumbers
    /\ noi = Rat(864, 5)
    /\ cashflows[2] = Rat(864, 5)

\* the same seed through the bundle's NOI, with the stress DSCR on 0.08
DefaultVacancyInBundle ==
    /\ pc = "proj_loop"
    /\ yr = 2
    /\ p.vacancy_rate = None
    /\ nums.noi_year = Rat(864, 5)
    /\ nums.dscr_stress = RDiv(RSub(RMul(R(16), Rat(92, 100)), R(4)), R(5))
    /\ noi = Rat(864, 5)

\* how far an _irr call has got
IrrProgress ==
    CASE pc = "irr_try" -> 0
      [] pc \in {"irr_test", "irr_except"} -> 1
      [] pc = "irr_done" -> 2

\* a rate: a number, or a root numpy has found
IsRate(x) == Len(x) \in {2, 3}

\* C27 (SpecIrrFair): every _irr call on a finite series returns: no statement
\* is executed twice (each one moves the call on, so it ends within two
\* statements after the numpy call), it never raises, and what it returns is
\* a rate or the absent value, the absent value whenever numpy reports no
\* rate or fails, as for a series whose flows never change sign.
C27_IrrTerminates ==
    /\ <>(pc = "irr_done")
    /\ [][IrrProgress' > IrrProgress]_vars
    /\ [](pc = "irr_done" =>
            /\ irr_ret = None \/ IsRate(irr_ret)
            /\ (~np_irr \/ irr_r = NAN \/ no_sign_change(cashflows)) => irr_ret = None)

\* C27 witness: three inflows and no outflow: numpy finds no rate, nan, and
\* _irr has returned the absent value.
C27_Witness ==
    /\ pc = "irr_done"
    /\ np_irr
    /\ cashflows = <<R(1), R(3), R(1)>>
    /\ irr_r = NAN
    /\ irr_ret = None

\* an outflow of 1 followed by an inflow of 3 returns the rate 200%
IrrOfTripled ==
    /\ pc = "irr_done"
    /\ cashflows = <<R(-1), R(3)>>
    /\ irr_ret = R(2)


\* C28 (SpecSpend): spend_credit never overdraws.  For a non-paid user, under
\* any interleaving of the calls of spend_credit(email, amount) with
\* amount >= 1, the stored credits never become negative, the calls that
\* return True number at most floor(initial credits / amount), and a call
\* that returns False leaves the credits unchanged.
C28_NoOverdraw ==
    /\ []((users # None /\ users.paid = 0) =>
            /\ users.credits >= 0
            /\ true_returns(NumSessions) <= credits0 \div amount)
    /\ [][\A i \in Sessions :
            (runs[i].ret = None /\ runs'[i].ret = <<FALSE>>) => users' = users]_vars

\* what holds of the stored credits whatever the interleaving: every call
\* that returned True to a non-paid user took amount from the row
SpendAccounts ==
    (users # None /\ users.paid = 0) =>
        users.credits = credits0 - amount * true_returns(NumSessions)

\* C29 (SpecTerminal): credit before analysis.  In the Terminal run an
\* analysis is computed and saved only after spend_credit has returned True
\* for that run; when spend_credit returns False the run stops and nothing is
\* saved; and when the run's user is not paid, the save is preceded by exactly
\* one decrement of the credits by CREDIT_COST_PER_ANALYSIS in that run.
C29_CreditBeforeAnalysis ==
    /\ [](\A i \in Sessions :
            /\ (runs[i].result # None \/ SavedBy(i, runs[i].n) # {})
                 => runs[i].ret = <<TRUE>>
            /\ runs[i].ret = <<FALSE>>
                 => /\ runs[i].at \in {"returned", "stopped"}
                    /\ runs[i].result = None
                    /\ SavedBy(i, runs[i].n) = {}
                    /\ runs[i].spent = 0
            /\ Cardinality(SavedBy(i, runs[i].n)) <= 1)
    /\ [][analyses' # analyses =>
            \E i \in Sessions :
              /\ analyses' = Append(analyses, analyses'[Len(analyses')])
              /\ analyses'[Len(analyses')].session = i
              /\ analyses'[Len(analyses')].n = runs[i].n
              /\ runs[i].ret = <<TRUE>>
              /\ runs[i].paid = 0 => runs[i].spent = CREDIT_COST_PER_ANALYSIS
              /\ runs[i].paid # 0 => runs[i].spent = 0]_vars

\* two sessions of a user with one credit: the first run is saved after its
\* one decrement, the other run's spend_credit returned False and it stopped
C29_Witness ==
    /\ credits0 = 1
    /\ users = [credits |-> 0, paid |-> 0]
    /\ Len(analyses) = 1
    /\ analyses[1].session = 1
    /\ runs[1].at = "done"
    /\ runs[1].spent = CREDIT_COST_PER_ANALYSIS
    /\ runs[2].at = "stopped"
    /\ runs[2].ret = <<FALSE>>

\* the scoring run has reached the grade with ai_risk alone in the Metrics map
OnlyAiRisk == pc \in {"done", "narrated"} /\ DOMAIN metrics = {"ai_risk"}

\* base score 100, no flags, penalty 0, no kill switch, final score 100,
\* grade A, verdict STRONG BUY
CleanA ==
    /\ base_score = R(100)
    /\ flags = <<>>
    /\ penalty = R(0)
    /\ ~killed
    /\ final_score = R(100)
    /\ g = "A"
    /\ verdict = "STRONG BUY"

\* a Deal Record with no field populated
BareRecord == [f \in Fields |-> None]

\* the scoring run on record q yields base score 100, no flags, no kill
\* switch, final score 100 and grade A, STRONG BUY
ScoresCleanA(q, incl, env) ==
    /\ ~compute_numbers_raises(q)
    /\ \E n \in {compute_numbers(q)} :
        \E m \in {available_metrics(q, n, incl)} :
         \E b \in {normalized_score(m, get_base_weights(env))[1]} :
          \E fs \in {ai_flags(q, n, incl)} :
           \E k \in {kill_switch(n, q, incl)} :
            \E fin \in {final_score_of(b, ai_penalty(fs))} :
              /\ DOMAIN m = {"ai_risk"}
              /\ b = R(100)
              /\ fs = <<>>
              /\ ~k
              /\ fin = R(100)
              /\ grade(fin, k) = <<"A", "STRONG BUY">>

\* C30 (Spec): ai_risk alone.  Whenever the Metrics map contains only ai_risk,
\* the run yields base score 100, no flags, penalty 0, no kill switch, final
\* score 100 and grade A with verdict STRONG BUY, for either regime.
C30_OnlyAiRiskCleanA == OnlyAiRisk => CleanA

\* C30, amended: with ai_risk alone in the Metrics map the base score is 100
\* for either regime and the final score is 100 x (1 - penalty); the run is
\* clean (no flags, penalty 0, no kill switch, final score 100, grade A,
\* STRONG BUY) when in addition no flag fired and the kill switch is off, as
\* is always so for an empty included-module set and for a record with no
\* field populated and Optionality not included; a kill switch gives F, PASS.
C30_OnlyAiRiskBase100 ==
    /\ OnlyAiRisk =>
         /\ base_score = R(100)
         /\ final_score = RMul(R(100), RSub(R(1), penalty))
         /\ (flags = <<>> /\ ~killed) => CleanA
         /\ killed => g = "F" /\ verdict = "PASS"
    /\ (pc \in {"done", "narrated"} /\ included = {}) => OnlyAiRisk /\ CleanA
    /\ pc \in {"done", "narrated"} =>
         ScoresCleanA(BareRecord, included \ {"Optionality"}, rate_env)

\* the run with no module included, in the HIGH regime, on a record flagged
\* for rent regulation
C30_Witness ==
    /\ pc = "done"
    /\ included = {}
    /\ rate_env = HIGH
    /\ p.rent_regulation_risk = <<TRUE>>
    /\ OnlyAiRisk
    /\ CleanA

\* a module that feeds no metric still flags and kills: Regulation alone
\* included, on a record flagged for rent regulation
OnlyAiRiskKilled ==
    /\ pc = "done"
    /\ included = {"Regulation"}
    /\ OnlyAiRisk
    /\ flags = <<FLAG_REGULATORY>>
    /\ penalty = Rat(20, 100)
    /\ killed
    /\ final_score = R(80)
    /\ g = "F"

====
